---- MODULE Spec2Model ----
(***************************************************************************)
(* Parse-and-analyze pipeline of the FHIR NDJSON visualizer:               *)
(*   parseNdjson      (src/src/utils/ndjsonParser.ts)                      *)
(*   analyzePatients  (src/src/utils/patientAnalytics.ts)                  *)
(*   analyzeEncounters (src/unnamed/part_005, utils/encounterAnalytics)    *)
(* routed by the detected kind as App.renderDashboard does                 *)
(* (src/unnamed/part_006); and the page around them, App with NdjsonInput  *)
(* (src/src/components/NdjsonInput.tsx), as a second specification.        *)
(***************************************************************************)
EXTENDS Integers, Sequences, FiniteSets, TLC

(***************************************************************************)
(* Bounds of the model.                                                    *)
(***************************************************************************)
\* Longest text, in lines, built from every choice of CoreLines.
MaxLen == 3

\* Longest text, in lines, built from every choice of WideLines.
MaxWide == 2

\* Longest text, in lines, built from every choice of patient or of
\* encounter records.
MaxRecs == 2

\* How far the long texts go beyond a cap (of stored errors, of listed labels).
Extra == 1

\* How often a text is submitted.
MaxRuns == 2

\* Largest maxResources getPreview is called with.
MaxPreview == 3

\* Longest text, in lines, typed into the textarea.
MaxTyped == 1

\* Longest text, in tokens, the textarea holds after a paste.
MaxText == 3

\* How many paste timeouts are pending at most.
MaxTimers == 1

(***************************************************************************)
(* JavaScript values.  Every value is a tagged record, each tag with its   *)
(* own payload field, so that any two values can be compared.              *)
(***************************************************************************)
Undef == [t |-> "undefined"]

Null == [t |-> "null"]

Bool(b) == [t |-> "bool", b |-> b]

Num(n) == [t |-> "num", n |-> n]

Str(s) == [t |-> "str", s |-> s]

Arr(a) == [t |-> "arr", a |-> a]

Obj(o) == [t |-> "obj", o |-> o]

\* The value a thrown TypeError propagates as.
TypeError == [t |-> "TypeError"]

\* ToBoolean: undefined, null, false, 0 and "" are falsy, all else is truthy.
Truthy(v) ==
  CASE v.t = "undefined" -> FALSE
    [] v.t = "null" -> FALSE
    [] v.t = "bool" -> v.b
    [] v.t = "num" -> v.n # 0
    [] v.t = "str" -> v.s # ""
    [] OTHER -> TRUE

\* typeof v === 'object' (true of null, arrays and objects).
TypeofObject(v) == v.t \in {"null", "arr", "obj"}

\* v == null (undefined or null): a property read on it throws.
Nullish(v) == v.t \in {"undefined", "null"}

\* v.f for a value that is not nullish: own field of an object, the length of
\* an array or a string, undefined for every other read.
Get(v, f) ==
  CASE v.t = "obj" -> IF f \in DOMAIN v.o THEN v.o[f] ELSE Undef
    [] v.t = "arr" /\ f = "length" -> Num(Len(v.a))
    [] OTHER -> Undef

\* v?.f : undefined when v is nullish.
OptGet(v, f) == IF Nullish(v) THEN Undef ELSE Get(v, f)

(***************************************************************************)
(* Input text.  A text is a sequence of tokens: a newline, one whitespace  *)
(* character, a run of characters that is no JSON text (such as `{bad`),   *)
(* or a complete JSON text denoting the value v.  `long` says that the     *)
(* token has more than MAX_ERROR_LINE_LENGTH characters.                   *)
(***************************************************************************)
NL == [t |-> "nl"]

WS == [t |-> "ws"]

Garbage(long) == [t |-> "garbage", long |-> long]

Json(v) == [t |-> "json", v |-> v, long |-> FALSE]

\* input.split('\n'): the pieces between the newlines; a text without
\* newline, the empty text included, is one piece.
RECURSIVE Split(_)
Split(text) ==
  IF \A k \in 1..Len(text) : text[k] # NL
  THEN <<text>>
  ELSE LET k == CHOOSE k \in 1..Len(text) :
                  text[k] = NL /\ \A j \in 1..(k - 1) : text[j] # NL
       IN <<SubSeq(text, 1, k - 1)>> \o Split(SubSeq(text, k + 1, Len(text)))

\* Mutant of Trim: the line is used as it is.
TrimNothing(line) == line

\* line.trim(): the line without its leading and trailing whitespace.
RECURSIVE Trim(_)
Trim(line) ==
  IF line = <<>> THEN line
  ELSE IF Head(line) = WS THEN Trim(Tail(line))
  ELSE IF line[Len(line)] = WS THEN Trim(SubSeq(line, 1, Len(line) - 1))
  ELSE line

\* JSON.parse of a trimmed, non-empty line: the value of a line that is one
\* JSON text; a SyntaxError for every other line (a non-JSON run, or JSON
\* texts separated by whitespace).
JSONParse(line) ==
  IF Len(line) = 1 /\ line[1].t = "json"
  THEN [ok |-> TRUE, v |-> line[1].v]
  ELSE [ok |-> FALSE, message |-> "SyntaxError"]

\* line.length > MAX_ERROR_LINE_LENGTH
TooLong(line) == \E k \in 1..Len(line) : line[k].t \in {"garbage", "json"} /\ line[k].long

MAX_ERRORS_STORED == 50

(***************************************************************************)
(* parseNdjson, one loop iteration per step.                               *)
(***************************************************************************)
VARIABLES
  input,                      \* the text handed to parseNdjson
  pc,                         \* "typed", "idle", "parsing", "parsed", "analyzed", "crashed"
  lines,                      \* input.split('\n')
  i,                          \* loop index, 0-based as in the code
  resources,
  errors,
  detectedResourceType,
  resourceTypeMismatchCount,
  validLines,
  invalidLines,
  result,                     \* the returned ParseResult, Null before the return
  today,                      \* the calendar day new Date() yields
  zone,                       \* the host's time zone, hours ahead of UTC
  analyzed,                   \* what the dashboard's analyzer was given and returned
  run,                        \* how many times the input has been submitted
  prev,                       \* result and analyzed of the previous submission
  looks,                      \* what looksLikeNdjson(input) returned, Null before the call
  previews,                   \* what getPreview(input, n) returned, for each n
  \* App (src/unnamed/part_006)
  view,                       \* 'input' or 'dashboard'
  parseResult,                \* the ParseResult, or Null
  activeTab,                  \* 'overview' or 'data'
  isLoading,
  storedInput,                \* the state of useLocalStorage
  storageItem,                \* the value of the localStorage item: <<>> or <<text>>
  frames,                     \* inputs of the pending requestAnimationFrame callbacks
  outcome,                    \* how the last callback's parse ended: "none", "returned", "threw"
  \* NdjsonInput (src/src/components/NdjsonInput.tsx), while it is mounted
  inputText,                  \* the state `input`
  validationStatus,           \* 'empty', 'valid' or 'invalid'
  previewType,
  lineCount,
  timers                      \* arguments of the pending setTimeout callbacks of handlePaste

parserVars == <<lines, i, resources, errors, detectedResourceType,
                resourceTypeMismatchCount, validLines, invalidLines>>

pipelineVars == <<input, zone, pc, parserVars, result, today, analyzed, run, prev,
                  looks, previews>>

appVars == <<view, parseResult, activeTab, isLoading, storedInput, storageItem,
             frames, outcome>>

inputVars == <<inputText, validationStatus, previewType, lineCount, timers>>

uiVars == <<appVars, inputVars>>

\* Mutant of ValidateLine: the resourceType must be 'Patient' or 'Encounter'.
ValidateLineSupported(line) ==
  LET p == JSONParse(line) IN
  IF ~p.ok THEN p
  ELSE IF ~Truthy(p.v) \/ ~TypeofObject(p.v)
       THEN [ok |-> FALSE, message |-> "Parsed value is not an object"]
  ELSE IF Get(p.v, "resourceType") \notin {Str("Patient"), Str("Encounter")}
       THEN [ok |-> FALSE, message |-> "Missing resourceType field"]
  ELSE p

\* The try block up to the resourceType checks: the parsed value, or the
\* message of the error thrown.
ValidateLine(line) ==
  LET p == JSONParse(line) IN
  IF ~p.ok THEN p
  ELSE IF ~Truthy(p.v) \/ ~TypeofObject(p.v)
       THEN [ok |-> FALSE, message |-> "Parsed value is not an object"]
  ELSE IF ~Truthy(Get(p.v, "resourceType"))
       THEN [ok |-> FALSE, message |-> "Missing resourceType field"]
  ELSE p

\* Mutant of TrackType: the last valid line decides.
TrackTypeLast(detected, rt) == rt

\* Track resourceType - use first valid one.
TrackType(detected, rt) == IF detected = Null THEN rt ELSE detected

\* else if (parsed.resourceType !== detectedResourceType)
IsMismatch(detected, rt) == detected # Null /\ rt # detected

\* The stored excerpt of an invalid line.
RawLine(line) == [line |-> line, truncated |-> TooLong(line)]

\* Mutant of StoreError: the cap is tested with <=.
StoreErrorOneMore(errs, lineNumber, message, line) ==
  IF Len(errs) <= MAX_ERRORS_STORED
  THEN Append(errs, [lineNumber |-> lineNumber,
                     message |-> [text |-> message],
                     rawLine |-> RawLine(line)])
  ELSE errs

\* Store error details (limit total stored).
StoreError(errs, lineNumber, message, line) ==
  IF Len(errs) < MAX_ERRORS_STORED
  THEN Append(errs, [lineNumber |-> lineNumber,
                     message |-> [text |-> message],
                     rawLine |-> RawLine(line)])
  ELSE errs

\* Mutant of AddWarning: the warning is added whatever is stored already.
AddWarningUncapped(errs, mismatches, detected) ==
  IF mismatches > 0
  THEN <<[lineNumber |-> 0,
          message |-> [text |-> "Warning", count |-> mismatches, type |-> detected]]>>
       \o errs
  ELSE errs

\* Mutant of AddWarning: the warning is pushed instead of unshifted.
AddWarningLast(errs, mismatches, detected) ==
  IF mismatches > 0 /\ Len(errs) < MAX_ERRORS_STORED
  THEN Append(errs, [lineNumber |-> 0,
                     message |-> [text |-> "Warning", count |-> mismatches,
                                  type |-> detected]])
  ELSE errs

\* Add warning about mixed resourceTypes.
AddWarning(errs, mismatches, detected) ==
  IF mismatches > 0 /\ Len(errs) < MAX_ERRORS_STORED
  THEN <<[lineNumber |-> 0,
          message |-> [text |-> "Warning", count |-> mismatches, type |-> detected]]>>
       \o errs
  ELSE errs

\* detectedResourceType || 'Unknown'
ResultType(detected) == IF Truthy(detected) THEN detected ELSE Str("Unknown")

\* detectedResourceType ? `${detectedResourceType}.ndjson` : 'unknown.ndjson'
PseudoFileName(detected) ==
  IF Truthy(detected) THEN [stem |-> detected, ext |-> ".ndjson"]
  ELSE [stem |-> Str("unknown"), ext |-> ".ndjson"]

\* Mutant of TotalLines: only the lines with content are counted.
TotalLinesWithContent(ls) == Cardinality({k \in 1..Len(ls) : ls[k] # <<>>})

\* lines.length
TotalLines(ls) == Len(ls)

\* performance.now() - startTime, in whole milliseconds.
ElapsedMs == {0, 1}

ParseStart ==
  /\ pc = "idle"
  /\ pc' = "parsing"
  /\ lines' = Split(input)
  /\ i' = 0
  /\ resources' = <<>>
  /\ errors' = <<>>
  /\ detectedResourceType' = Null
  /\ resourceTypeMismatchCount' = 0
  /\ validLines' = 0
  /\ invalidLines' = 0
  /\ result' = Null
  /\ UNCHANGED <<uiVars, looks, previews, input, zone, today, analyzed, run, prev>>

ParseLine ==
  /\ pc = "parsing"
  /\ i < Len(lines)
  /\ LET line == Trim(lines[i + 1])
         lineNumber == i + 1
         r == ValidateLine(line)
     IN /\ i' = i + 1
        /\ IF line = <<>>
           THEN UNCHANGED <<resources, errors, detectedResourceType,
                            resourceTypeMismatchCount, validLines, invalidLines>>
           ELSE IF r.ok
           THEN LET rt == Get(r.v, "resourceType") IN
                /\ detectedResourceType' = TrackType(detectedResourceType, rt)
                /\ resourceTypeMismatchCount' =
                     IF IsMismatch(detectedResourceType, rt)
                     THEN resourceTypeMismatchCount + 1
                     ELSE resourceTypeMismatchCount
                /\ resources' = Append(resources, r.v)
                /\ validLines' = validLines + 1
                /\ UNCHANGED <<errors, invalidLines>>
           ELSE /\ invalidLines' = invalidLines + 1
                /\ errors' = StoreError(errors, lineNumber, r.message, line)
                /\ UNCHANGED <<resources, detectedResourceType,
                               resourceTypeMismatchCount, validLines>>
  /\ UNCHANGED <<uiVars, looks, previews, input, zone, pc, lines, result, today, analyzed, run, prev>>

ParseFinish ==
  /\ pc = "parsing"
  /\ i = Len(lines)
  /\ errors' = AddWarning(errors, resourceTypeMismatchCount, detectedResourceType)
  /\ \E ms \in ElapsedMs :
       result' = [resources |-> resources,
                  resourceType |-> ResultType(detectedResourceType),
                  pseudoFileName |-> PseudoFileName(detectedResourceType),
                  totalLines |-> TotalLines(lines),
                  validLines |-> validLines,
                  invalidLines |-> invalidLines,
                  errors |-> errors',
                  parseTimeMs |-> ms]
  /\ pc' = "parsed"
  /\ UNCHANGED <<uiVars, looks, previews, input, zone, lines, i, resources, detectedResourceType,
                 resourceTypeMismatchCount, validLines, invalidLines,
                 today, analyzed, run, prev>>

\* One iteration of the loop of parseNdjson on the locals st.
ParseStep(st, rawLine, lineNumber) ==
  LET line == Trim(rawLine)
      r == ValidateLine(line)
  IN IF line = <<>> THEN st
     ELSE IF r.ok
     THEN LET rt == Get(r.v, "resourceType") IN
          [st EXCEPT !.detectedResourceType = TrackType(@, rt),
                     !.resourceTypeMismatchCount =
                        IF IsMismatch(st.detectedResourceType, rt) THEN @ + 1 ELSE @,
                     !.resources = Append(@, r.v),
                     !.validLines = @ + 1]
     ELSE [st EXCEPT !.invalidLines = @ + 1,
                     !.errors = StoreError(@, lineNumber, r.message, line)]

\* The loop of parseNdjson from line k on.
RECURSIVE ParseLoop(_, _, _)
ParseLoop(ls, k, st) ==
  IF k > Len(ls) THEN st ELSE ParseLoop(ls, k + 1, ParseStep(st, ls[k], k))

\* parseNdjson(input) as one call that took ms milliseconds: what the steps
\* ParseStart, ParseLine and ParseFinish arrive at.
parseNdjson(text, ms) ==
  LET ls == Split(text)
      st == ParseLoop(ls, 1, [resources |-> <<>>, errors |-> <<>>,
                              detectedResourceType |-> Null,
                              resourceTypeMismatchCount |-> 0,
                              validLines |-> 0, invalidLines |-> 0])
  IN [resources |-> st.resources,
      resourceType |-> ResultType(st.detectedResourceType),
      pseudoFileName |-> PseudoFileName(st.detectedResourceType),
      totalLines |-> TotalLines(ls),
      validLines |-> st.validLines,
      invalidLines |-> st.invalidLines,
      errors |-> AddWarning(st.errors, st.resourceTypeMismatchCount,
                            st.detectedResourceType),
      parseTimeMs |-> ms]

(***************************************************************************)
(* The pre-check and the preview of ndjsonParser.ts, which NdjsonInput     *)
(* calls on the text before it can be submitted.                           *)
(***************************************************************************)
\* input.trim() of a whole text: without the whitespace and the line breaks
\* at its two ends.
RECURSIVE TrimText(_)
TrimText(text) ==
  IF text = <<>> THEN text
  ELSE IF Head(text) \in {WS, NL} THEN TrimText(Tail(text))
  ELSE IF text[Len(text)] \in {WS, NL} THEN TrimText(SubSeq(text, 1, Len(text) - 1))
  ELSE text

\* trimmed.startsWith('{') for a trimmed, non-empty line: the text of an
\* object starts with the brace, and so do the runs that are no JSON text
\* (`{bad`); the text of any other JSON value does not.
StartsWithBrace(line) ==
  \/ line[1].t = "garbage"
  \/ line[1].t = "json" /\ line[1].v.t = "obj"

\* typeof v === 'string'
TypeofString(v) == v.t = "str"

\* The loop of looksLikeNdjson from line k on: the first non-empty line
\* decides.
RECURSIVE LooksFrom(_, _)
LooksFrom(ls, k) ==
  IF k > Len(ls) THEN FALSE
  ELSE LET trimmed == Trim(ls[k]) IN
       IF trimmed = <<>> THEN LooksFrom(ls, k + 1)
       ELSE IF ~StartsWithBrace(trimmed) THEN FALSE
       ELSE LET p == JSONParse(trimmed) IN
            IF ~p.ok THEN FALSE
            ELSE /\ Truthy(p.v)
                 /\ TypeofObject(p.v)
                 /\ TypeofString(Get(p.v, "resourceType"))

\* Mutant of looksLikeNdjson: a line that fails is skipped like a blank one.
RECURSIVE LooksAnywhereFrom(_, _)
LooksAnywhereFrom(ls, k) ==
  IF k > Len(ls) THEN FALSE
  ELSE LET p == JSONParse(Trim(ls[k])) IN
       \/ /\ p.ok /\ Truthy(p.v) /\ TypeofObject(p.v)
          /\ TypeofString(Get(p.v, "resourceType"))
       \/ LooksAnywhereFrom(ls, k + 1)

looksLikeNdjsonAnyLine(text) ==
  IF text = <<>> \/ TrimText(text) = <<>> THEN FALSE
  ELSE LooksAnywhereFrom(Split(text), 1)

\* looksLikeNdjson(input)
looksLikeNdjson(text) ==
  IF text = <<>> \/ TrimText(text) = <<>> THEN FALSE
  ELSE LooksFrom(Split(text), 1)

\* Mutant of PreviewAccepts: every JSON value that is truthy is accepted.
PreviewAcceptsAnyValue(line) ==
  LET p == JSONParse(line) IN p.ok /\ Truthy(p.v)

\* if (parsed && parsed.resourceType) of getPreview
PreviewAccepts(line) ==
  LET p == JSONParse(line) IN
  p.ok /\ Truthy(p.v) /\ Truthy(Get(p.v, "resourceType"))

\* The loop of getPreview from line k on, with the resources collected so
\* far.
RECURSIVE PreviewFrom(_, _, _, _)
PreviewFrom(ls, k, collected, maxResources) ==
  IF k > Len(ls) \/ Len(collected) >= maxResources THEN collected
  ELSE LET trimmed == Trim(ls[k]) IN
       IF trimmed # <<>> /\ PreviewAccepts(trimmed)
       THEN PreviewFrom(ls, k + 1, Append(collected, JSONParse(trimmed).v), maxResources)
       ELSE PreviewFrom(ls, k + 1, collected, maxResources)

\* getPreview(input, maxResources)
getPreview(text, maxResources) ==
  LET ls == Split(text) IN
  [resources |-> PreviewFrom(ls, 1, <<>>, maxResources),
   hasMore |-> Cardinality({k \in 1..Len(ls) : Trim(ls[k]) # <<>>}) > maxResources]

\* The pre-check and the previews of the text, before it is parsed.
Precheck ==
  /\ pc = "typed"
  /\ looks' = looksLikeNdjson(input)
  /\ previews' = [n \in 0..MaxPreview |-> getPreview(input, n)]
  /\ pc' = "idle"
  /\ UNCHANGED <<uiVars, input, zone, parserVars, result, today, analyzed, run, prev>>

(***************************************************************************)
(* Helpers shared by the two analyzers.                                    *)
(***************************************************************************)
\* v[0] for a value that is not nullish (the input families hold no string
\* where the code indexes).
Index0(v) == IF v.t = "arr" /\ Len(v.a) > 0 THEN v.a[1] ELSE Undef

\* v.length > 0
LengthPositive(v) ==
  LET n == Get(v, "length") IN n.t = "num" /\ n.n > 0

\* arr.find((e) => e.url === url): the first element whose url is `url`,
\* undefined when there is none; a TypeError when arr has no find method
\* (it is not an array) or when a null element is reached before a match.
Find(arr, url) ==
  IF arr.t # "arr" THEN TypeError
  ELSE LET hits == {k \in 1..Len(arr.a) :
                      Nullish(arr.a[k]) \/ Get(arr.a[k], "url") = Str(url)}
       IN IF hits = {} THEN Undef
          ELSE LET k == CHOOSE k \in hits : \A j \in hits : k <= j
               IN IF Nullish(arr.a[k]) THEN TypeError ELSE arr.a[k]

\* A Map<label, number> in insertion order: a sequence of [label, count].
\* counts.set(label, (counts.get(label) || 0) + 1)
Increment(counts, label) ==
  IF \E k \in 1..Len(counts) : counts[k].label = label
  THEN [k \in 1..Len(counts) |->
          IF counts[k].label = label
          THEN [label |-> label, count |-> counts[k].count + 1]
          ELSE counts[k]]
  ELSE Append(counts, [label |-> label, count |-> 1])

\* The map after counting every label of a sequence, first to last.
RECURSIVE CountAll(_, _)
CountAll(counts, labels) ==
  IF labels = <<>> THEN counts
  ELSE CountAll(Increment(counts, Head(labels)), Tail(labels))

\* Array.from(counts.values()).reduce((a, b) => a + b, 0)
RECURSIVE SumCounts(_)
SumCounts(items) ==
  IF items = <<>> THEN 0 ELSE Head(items).count + SumCounts(Tail(items))

\* Mutant of Percentage: the percentage is cut to a whole number.
PercentageWhole(count, total) ==
  IF total > 0 THEN ((count * 100) \div total) * 10000 ELSE 0

\* (count / total) * 100, kept in units of 1/10000 percent and cut off there:
\* the double the code computes is within this unit of the exact quotient.
Percentage(count, total) ==
  IF total > 0 THEN (count * 100 * 10000) \div total ELSE 0

\* Mutant of InsertByCount: the item goes in front of the items of equal count.
RECURSIVE InsertByCountInFront(_, _)
InsertByCountInFront(sorted, item) ==
  IF sorted = <<>> THEN <<item>>
  ELSE IF Head(sorted).count > item.count
       THEN <<Head(sorted)>> \o InsertByCountInFront(Tail(sorted), item)
       ELSE <<item>> \o sorted

\* Insert item into a sequence already sorted by descending count, behind the
\* items of equal count (Array.prototype.sort is stable).
RECURSIVE InsertByCount(_, _)
InsertByCount(sorted, item) ==
  IF sorted = <<>> THEN <<item>>
  ELSE IF Head(sorted).count >= item.count
       THEN <<Head(sorted)>> \o InsertByCount(Tail(sorted), item)
       ELSE <<item>> \o sorted

\* .sort((a, b) => b.count - a.count)
RECURSIVE SortByCountDesc(_)
SortByCountDesc(items) ==
  IF items = <<>> THEN <<>>
  ELSE InsertByCount(SortByCountDesc(SubSeq(items, 1, Len(items) - 1)),
                     items[Len(items)])

\* createDistribution(counts)
createDistribution(counts) ==
  LET total == SumCounts(counts) IN
  SortByCountDesc([k \in 1..Len(counts) |->
                     [label |-> counts[k].label,
                      count |-> counts[k].count,
                      percentage |-> Percentage(counts[k].count, total)]])

\* .slice(0, n)
Slice0(seq, n) == SubSeq(seq, 1, IF Len(seq) < n THEN Len(seq) ELSE n)

(***************************************************************************)
(* Dates.  new Date(s) is a table over the date strings of the input       *)
(* families; every other string, "bad-date" among them, is an Invalid Date *)
(* (getTime() is NaN).  A valid date is its calendar day in UTC: a          *)
(* date-only string is parsed as midnight UTC, while getFullYear, getMonth *)
(* and getDate read the host's local day.                                  *)
(***************************************************************************)
\* The time zones a host can be in, in hours ahead of UTC.
Zones == {-5, 0, 9}

Day(y, m, d) == [valid |-> TRUE, y |-> y, m |-> m, d |-> d]

InvalidDate == [valid |-> FALSE]

DateTable ==
  "1900-01-01" :> Day(1900, 1, 1) @@
  "1990-06-15" :> Day(1990, 6, 15) @@
  "2000-01-01" :> Day(2000, 1, 1) @@
  "2020-03-01" :> Day(2020, 3, 1) @@
  "2030-01-01" :> Day(2030, 1, 1)

\* The number of days of month m of year y.
DaysIn(y, m) ==
  IF m = 2 THEN (IF y % 4 = 0 /\ (y % 100 # 0 \/ y % 400 = 0) THEN 29 ELSE 28)
  ELSE IF m \in {4, 6, 9, 11} THEN 30 ELSE 31

PrevDay(date) ==
  IF date.d > 1 THEN Day(date.y, date.m, date.d - 1)
  ELSE IF date.m > 1 THEN Day(date.y, date.m - 1, DaysIn(date.y, date.m - 1))
  ELSE Day(date.y - 1, 12, 31)

NextDay(date) ==
  IF date.d < DaysIn(date.y, date.m) THEN Day(date.y, date.m, date.d + 1)
  ELSE IF date.m < 12 THEN Day(date.y, date.m + 1, 1)
  ELSE Day(date.y + 1, 1, 1)

\* The day getFullYear(), getMonth() and getDate() read for the instant hh
\* half hours into the UTC day `date`.
LocalDay(date, hh) ==
  LET local == hh + 2 * zone IN
  IF local < 0 THEN PrevDay(date)
  ELSE IF local >= 48 THEN NextDay(date)
  ELSE Day(date.y, date.m, date.d)

\* new Date(v) for a string v
NewDate(v) ==
  IF v.t = "str" /\ v.s \in DOMAIN DateTable THEN DateTable[v.s] ELSE InvalidDate

\* a.getTime() - b.getTime() < 0, for valid dates
Before(a, b) ==
  \/ a.y < b.y
  \/ a.y = b.y /\ a.m < b.m
  \/ a.y = b.y /\ a.m = b.m /\ a.d < b.d

(***************************************************************************)
(* patientAnalytics.ts                                                     *)
(***************************************************************************)
US_CORE_RACE_URL == "http://hl7.org/fhir/us/core/StructureDefinition/us-core-race"

US_CORE_ETHNICITY_URL == "http://hl7.org/fhir/us/core/StructureDefinition/us-core-ethnicity"

OMB_CATEGORY_URL == "ombCategory"

DETAILED_URL == "detailed"

TEXT_URL == "text"

\* calculateAge(birthDate, deceasedDateTime) when new Date() is the local day
\* `now`: Num(age) or Null.
calculateAge(birthDate, deceasedDateTime, now) ==
  IF ~Truthy(birthDate) THEN Null
  ELSE LET birthDate0 == NewDate(birthDate)
           endDate0 == IF Truthy(deceasedDateTime) THEN NewDate(deceasedDateTime)
                       ELSE now
       IN IF ~birthDate0.valid THEN Null
          ELSE IF ~endDate0.valid THEN Null   \* age is NaN, and NaN >= 0 is false
          ELSE LET birth == LocalDay(birthDate0, 0)
                   endDate == IF Truthy(deceasedDateTime) THEN LocalDay(endDate0, 0)
                              ELSE now
                   years == endDate.y - birth.y
                   monthDiff == endDate.m - birth.m
                   age == IF monthDiff < 0 \/ (monthDiff = 0 /\ endDate.d < birth.d)
                          THEN years - 1 ELSE years
               IN IF age >= 0 THEN Num(age) ELSE Null

\* x?.valueCoding?.display
CodingDisplay(x) == OptGet(OptGet(x, "valueCoding"), "display")

\* extractRace(extensions): a label, Null, or the TypeError thrown.
extractRace(extensions) ==
  IF ~Truthy(extensions) THEN Null
  ELSE LET raceExt == Find(extensions, US_CORE_RACE_URL) IN
    IF raceExt = TypeError THEN TypeError
    ELSE IF ~Truthy(raceExt) \/ ~Truthy(Get(raceExt, "extension")) THEN Null
    ELSE LET sub == Get(raceExt, "extension")
             ombCategory == Find(sub, OMB_CATEGORY_URL)
             detailed == Find(sub, DETAILED_URL)
             text == Find(sub, TEXT_URL)
         IN IF ombCategory = TypeError THEN TypeError
            ELSE IF Truthy(CodingDisplay(ombCategory)) THEN CodingDisplay(ombCategory)
            ELSE IF detailed = TypeError THEN TypeError
            ELSE IF Truthy(CodingDisplay(detailed)) THEN CodingDisplay(detailed)
            ELSE IF text = TypeError THEN TypeError
            ELSE IF Truthy(OptGet(text, "valueString")) THEN OptGet(text, "valueString")
            ELSE Null

\* extractEthnicity(extensions): a label, Null, or the TypeError thrown.
extractEthnicity(extensions) ==
  IF ~Truthy(extensions) THEN Null
  ELSE LET ethExt == Find(extensions, US_CORE_ETHNICITY_URL) IN
    IF ethExt = TypeError THEN TypeError
    ELSE IF ~Truthy(ethExt) \/ ~Truthy(Get(ethExt, "extension")) THEN Null
    ELSE LET sub == Get(ethExt, "extension")
             ombCategory == Find(sub, OMB_CATEGORY_URL)
             text == Find(sub, TEXT_URL)
         IN IF ombCategory = TypeError THEN TypeError
            ELSE IF Truthy(CodingDisplay(ombCategory)) THEN CodingDisplay(ombCategory)
            ELSE IF text = TypeError THEN TypeError
            ELSE IF Truthy(OptGet(text, "valueString")) THEN OptGet(text, "valueString")
            ELSE Null

\* The ten buckets of createAgeHistogram, counts at zero.
AgeBuckets ==
  << [min |-> 0, max |-> 9, label |-> "0-9", count |-> 0],
     [min |-> 10, max |-> 19, label |-> "10-19", count |-> 0],
     [min |-> 20, max |-> 29, label |-> "20-29", count |-> 0],
     [min |-> 30, max |-> 39, label |-> "30-39", count |-> 0],
     [min |-> 40, max |-> 49, label |-> "40-49", count |-> 0],
     [min |-> 50, max |-> 59, label |-> "50-59", count |-> 0],
     [min |-> 60, max |-> 69, label |-> "60-69", count |-> 0],
     [min |-> 70, max |-> 79, label |-> "70-79", count |-> 0],
     [min |-> 80, max |-> 89, label |-> "80-89", count |-> 0],
     [min |-> 90, max |-> 120, label |-> "90+", count |-> 0] >>

\* if (age >= bucket.min && age <= bucket.max)
InAgeBucket(age, bucket) == age >= bucket.min /\ age <= bucket.max

\* The inner loop of createAgeHistogram: the first matching bucket is
\* incremented; no bucket is when none matches.
AddAge(buckets, age) ==
  LET hits == {k \in 1..Len(buckets) : InAgeBucket(age, buckets[k])} IN
  IF hits = {} THEN buckets
  ELSE LET first == CHOOSE k \in hits : \A j \in hits : k <= j
       IN [buckets EXCEPT ![first].count = @ + 1]

RECURSIVE AddAges(_, _)
AddAges(buckets, ages) ==
  IF ages = <<>> THEN buckets ELSE AddAges(AddAge(buckets, Head(ages)), Tail(ages))

\* createAgeHistogram(ages)
createAgeHistogram(ages) == AddAges(AgeBuckets, ages)

\* [...values].sort((a, b) => a - b)
RECURSIVE InsertAsc(_, _)
InsertAsc(sorted, v) ==
  IF sorted = <<>> THEN <<v>>
  ELSE IF Head(sorted) <= v THEN <<Head(sorted)>> \o InsertAsc(Tail(sorted), v)
  ELSE <<v>> \o sorted

RECURSIVE SortAsc(_)
SortAsc(values) ==
  IF values = <<>> THEN <<>>
  ELSE InsertAsc(SortAsc(Tail(values)), Head(values))

RECURSIVE Sum(_)
Sum(values) == IF values = <<>> THEN 0 ELSE Head(values) + Sum(Tail(values))

RECURSIVE SumSquares(_)
SumSquares(values) ==
  IF values = <<>> THEN 0 ELSE Head(values) * Head(values) + SumSquares(Tail(values))

\* Math.round((num / den) * 10), the value in tenths, for num >= 0 < den.
RoundTenths(num, den) == (20 * num + den) \div (2 * den)

\* Math.round(Math.sqrt(q) / n * 10) for q >= 0 < n: the largest t with
\* t - 1/2 <= 10 * sqrt(q) / n.  The deviation is at most the spread max - min.
RoundSqrtTenths(q, n, spread) ==
  LET Fits(t) == t = 0 \/ (2 * t - 1) * (2 * t - 1) * n * n <= 400 * q
  IN CHOOSE t \in 0..(10 * spread + 1) : Fits(t) /\ ~Fits(t + 1)

\* calculateStats(values) of patientAnalytics.ts, for whole-numbered values;
\* mean, median and stdDev are in tenths (the code rounds them to one decimal).
calculateStats(values) ==
  IF Len(values) = 0
  THEN [mean |-> 0, median |-> 0, min |-> 0, max |-> 0, stdDev |-> 0]
  ELSE LET n == Len(values)
           sorted == SortAsc(values)
           sum == Sum(values)
           median2 == IF n % 2 = 0 THEN sorted[n \div 2] + sorted[n \div 2 + 1]
                      ELSE 2 * sorted[n \div 2 + 1]
       IN [mean |-> RoundTenths(sum, n),
           median |-> RoundTenths(median2, 2),
           min |-> sorted[1],
           max |-> sorted[n],
           stdDev |-> RoundSqrtTenths(n * SumSquares(values) - sum * sum, n,
                                      sorted[n] - sorted[1])]

\* The values F(r) of the records of a sequence that are truthy, in order.
TruthyOf(records, F(_)) ==
  SelectSeq([k \in 1..Len(records) |-> F(records[k])], Truthy)

\* patient.address && patient.address.length > 0
HasAddress(patient) ==
  Truthy(Get(patient, "address")) /\ LengthPositive(Get(patient, "address"))

\* primaryAddress.state / primaryAddress.city
PrimaryAddress(patient) == Index0(Get(patient, "address"))

StateOf(patient) ==
  IF HasAddress(patient) THEN OptGet(PrimaryAddress(patient), "state") ELSE Undef

CityOf(patient) ==
  IF HasAddress(patient) THEN OptGet(PrimaryAddress(patient), "city") ELSE Undef

RaceOf(patient) == extractRace(Get(patient, "extension"))

EthnicityOf(patient) == extractEthnicity(Get(patient, "extension"))

GenderOf(patient) == Get(patient, "gender")

\* The loop body of analyzePatients throws a TypeError on this patient.
PatientThrows(patient) ==
  \/ RaceOf(patient) = TypeError
  \/ EthnicityOf(patient) = TypeError
  \/ HasAddress(patient) /\ Nullish(PrimaryAddress(patient))

\* Mutant of IsDeceased: only the flag is looked at.
IsDeceasedByFlag(patient) == Truthy(Get(patient, "deceasedBoolean"))

\* if (patient.deceasedBoolean || patient.deceasedDateTime)
IsDeceased(patient) ==
  Truthy(Get(patient, "deceasedBoolean")) \/ Truthy(Get(patient, "deceasedDateTime"))

\* The ages pushed by the loop, in order.
AgesOf(patients, now) ==
  LET age(p) == calculateAge(Get(p, "birthDate"), Get(p, "deceasedDateTime"), now)
      all == [k \in 1..Len(patients) |-> age(patients[k])]
      defined == SelectSeq(all, LAMBDA a : a # Null)
  IN [k \in 1..Len(defined) |-> defined[k].n]

\* The valid birth dates pushed by the loop, in order.
BirthDatesOf(patients) ==
  LET all == [k \in 1..Len(patients) |->
                IF Truthy(Get(patients[k], "birthDate"))
                THEN NewDate(Get(patients[k], "birthDate")) ELSE InvalidDate]
  IN SelectSeq(all, LAMBDA d : d.valid)

\* The DateRange of a list of valid dates.
DateRangeOf(dates) ==
  IF dates = <<>>
  THEN [min |-> Null, max |-> Null,
        minFormatted |-> [text |-> "N/A"], maxFormatted |-> [text |-> "N/A"]]
  ELSE LET lo == CHOOSE d \in {dates[k] : k \in 1..Len(dates)} :
                   \A k \in 1..Len(dates) : ~Before(dates[k], d)
           hi == CHOOSE d \in {dates[k] : k \in 1..Len(dates)} :
                   \A k \in 1..Len(dates) : ~Before(d, dates[k])
       IN [min |-> lo, max |-> hi,
           minFormatted |-> [localeDate |-> lo], maxFormatted |-> [localeDate |-> hi]]

Count(records, P(_)) == Cardinality({k \in 1..Len(records) : P(records[k])})

\* Mutant of MissingBirthDate: an unparsable birth date counts as missing.
MissingBirthDateOrInvalid(patient) ==
  ~Truthy(Get(patient, "birthDate")) \/ ~NewDate(Get(patient, "birthDate")).valid

\* The else branch of if (patient.birthDate): missingBirthDate++
MissingBirthDate(patient) == ~Truthy(Get(patient, "birthDate"))

\* The else branch of if (patient.gender): missingGender++
MissingGender(patient) == ~Truthy(Get(patient, "gender"))

\* The else branch of the address test: missingAddress++
MissingAddress(patient) == ~HasAddress(patient)

\* analyzePatients(patients) when new Date() is the day `now`: the PatientAnalytics
\* returned, or the TypeError that escapes.
analyzePatients(patients, now) ==
  IF \E k \in 1..Len(patients) : PatientThrows(patients[k]) THEN TypeError
  ELSE
  LET ages == AgesOf(patients, now)
      ids == {Get(patients[k], "id") : k \in 1..Len(patients)}
      deceasedCount == Count(patients, IsDeceased)
  IN [totalPatients |-> Len(patients),
      uniqueIds |-> Cardinality({id \in ids : Truthy(id)}),
      genderDistribution |-> createDistribution(CountAll(<<>>, TruthyOf(patients, GenderOf))),
      ageDistribution |-> createAgeHistogram(ages),
      ageStats |-> calculateStats(ages),
      raceDistribution |-> createDistribution(CountAll(<<>>, TruthyOf(patients, RaceOf))),
      ethnicityDistribution |->
        createDistribution(CountAll(<<>>, TruthyOf(patients, EthnicityOf))),
      stateDistribution |->
        Slice0(createDistribution(CountAll(<<>>, TruthyOf(patients, StateOf))), 15),
      cityDistribution |->
        Slice0(createDistribution(CountAll(<<>>, TruthyOf(patients, CityOf))), 20),
      livingCount |-> Count(patients, LAMBDA p : ~IsDeceased(p)),
      deceasedCount |-> deceasedCount,
      mortalityRate |-> Percentage(deceasedCount, Len(patients)),
      birthDateRange |-> DateRangeOf(BirthDatesOf(patients)),
      missingBirthDate |-> Count(patients, MissingBirthDate),
      missingGender |-> Count(patients, MissingGender),
      missingAddress |-> Count(patients, MissingAddress)]

(***************************************************************************)
(* encounterAnalytics.ts (src/unnamed/part_005)                            *)
(***************************************************************************)
\* new Date(s) for the period strings of the input families: the calendar
\* day in UTC and getTime() in half hours since 2024-01-01T00:00Z.
TimeTable ==
  "2024-01-15T09:00:00Z" :> [valid |-> TRUE, y |-> 2024, m |-> 1, d |-> 15, t |-> 690] @@
  "2024-01-15T09:30:00Z" :> [valid |-> TRUE, y |-> 2024, m |-> 1, d |-> 15, t |-> 691] @@
  "2024-01-15T10:00:00Z" :> [valid |-> TRUE, y |-> 2024, m |-> 1, d |-> 15, t |-> 692] @@
  "2024-01-15T13:00:00Z" :> [valid |-> TRUE, y |-> 2024, m |-> 1, d |-> 15, t |-> 698] @@
  "2024-01-15T17:00:00Z" :> [valid |-> TRUE, y |-> 2024, m |-> 1, d |-> 15, t |-> 706] @@
  "2024-01-16T08:30:00Z" :> [valid |-> TRUE, y |-> 2024, m |-> 1, d |-> 16, t |-> 737] @@
  "2024-01-16T09:00:00Z" :> [valid |-> TRUE, y |-> 2024, m |-> 1, d |-> 16, t |-> 738] @@
  "2024-01-17T09:00:00Z" :> [valid |-> TRUE, y |-> 2024, m |-> 1, d |-> 17, t |-> 786] @@
  "2024-01-18T09:00:00Z" :> [valid |-> TRUE, y |-> 2024, m |-> 1, d |-> 18, t |-> 834] @@
  "2024-01-22T09:00:00Z" :> [valid |-> TRUE, y |-> 2024, m |-> 1, d |-> 22, t |-> 1026] @@
  "2024-01-29T09:00:00Z" :> [valid |-> TRUE, y |-> 2024, m |-> 1, d |-> 29, t |-> 1362] @@
  "2024-02-14T08:30:00Z" :> [valid |-> TRUE, y |-> 2024, m |-> 2, d |-> 14, t |-> 2129] @@
  "2024-02-14T09:00:00Z" :> [valid |-> TRUE, y |-> 2024, m |-> 2, d |-> 14, t |-> 2130] @@
  "2024-03-01T00:00:00Z" :> [valid |-> TRUE, y |-> 2024, m |-> 3, d |-> 1, t |-> 2880]

NewTime(v) ==
  IF v.t = "str" /\ v.s \in DOMAIN TimeTable THEN TimeTable[v.s] ELSE InvalidDate

\* Mutant of calculateLengthOfStay: a negative duration is clamped to zero.
calculateLengthOfStayClamped(start, end) ==
  IF ~Truthy(start) \/ ~Truthy(end) THEN Null
  ELSE LET startDate == NewTime(start)
           endDate == NewTime(end)
       IN IF ~startDate.valid \/ ~endDate.valid THEN Null
          ELSE IF endDate.t - startDate.t < 0 THEN Num(0)
          ELSE Num(endDate.t - startDate.t)

\* calculateLengthOfStay(start, end): Num(half hours) or Null.
calculateLengthOfStay(start, end) ==
  IF ~Truthy(start) \/ ~Truthy(end) THEN Null
  ELSE LET startDate == NewTime(start)
           endDate == NewTime(end)
       IN IF ~startDate.valid \/ ~endDate.valid THEN Null
          ELSE IF endDate.t - startDate.t < 0 THEN Null
          ELSE Num(endDate.t - startDate.t)

\* reference.substring(8) after "Patient/", reference.substring(9) after
\* "urn:uuid:", the reference itself otherwise, for the reference strings of
\* the input families.
StripPrefix(s) ==
  CASE s = "Patient/p1" -> "p1"
    [] s = "Patient/p2" -> "p2"
    [] s = "urn:uuid:p1" -> "p1"
    [] s = "Patient/" -> ""
    [] OTHER -> s

\* Mutant of extractPatientId: the reference is used as it is written.
extractPatientIdVerbatim(reference) ==
  IF ~Truthy(reference) THEN Null
  ELSE IF reference.t # "str" THEN TypeError
  ELSE reference

\* extractPatientId(reference): a string, Null, or the TypeError thrown by
\* reference.startsWith when the reference is truthy and no string.
extractPatientId(reference) ==
  IF ~Truthy(reference) THEN Null
  ELSE IF reference.t # "str" THEN TypeError
  ELSE Str(StripPrefix(reference.s))

\* codeMap of getClassDisplay
CodeMap ==
  "AMB" :> "Ambulatory" @@ "EMER" :> "Emergency" @@ "IMP" :> "Inpatient" @@
  "ACUTE" :> "Acute" @@ "NONAC" :> "Non-Acute" @@ "OBSENC" :> "Observation" @@
  "PRENC" :> "Pre-Admission" @@ "SS" :> "Short Stay" @@ "HH" :> "Home Health" @@
  "VR" :> "Virtual" @@ "outpatient" :> "Outpatient" @@ "inpatient" :> "Inpatient" @@
  "ambulatory" :> "Ambulatory" @@ "emergency" :> "Emergency" @@
  "wellness" :> "Wellness" @@ "urgentcare" :> "Urgent Care"

\* codeMap is an object literal: a read of a key it does not own goes on to
\* Object.prototype, whose members under these names are functions.
InheritedKeys ==
  {"constructor", "toString", "toLocaleString", "valueOf", "hasOwnProperty",
   "isPrototypeOf", "propertyIsEnumerable"}

\* The function Object.prototype holds under the key `name`.
Inherited(name) == [t |-> "function", of |-> "Object.prototype", name |-> name]

\* codeMap[code]: the own entry, the inherited member, or undefined.
CodeMapGet(code) ==
  IF code.t = "str" /\ code.s \in DOMAIN CodeMap THEN Str(CodeMap[code.s])
  ELSE IF code.t = "str" /\ code.s \in InheritedKeys THEN Inherited(code.s)
  ELSE Undef

\* getClassDisplay(enc)
getClassDisplay(enc) ==
  LET class == Get(enc, "class") IN
  IF Truthy(OptGet(class, "display")) THEN OptGet(class, "display")
  ELSE IF Truthy(OptGet(class, "code"))
       THEN LET code == OptGet(class, "code") IN
            IF Truthy(CodeMapGet(code)) THEN CodeMapGet(code) ELSE code
  ELSE Str("Unknown")

\* getTypeDisplay(enc): a label, or the TypeError thrown.
getTypeDisplay(enc) ==
  LET type == Get(enc, "type") IN
  IF ~Truthy(type) \/ Get(type, "length") = Num(0) THEN Str("Unspecified")
  ELSE LET firstType == Index0(type) IN
    IF Nullish(firstType) THEN TypeError
    ELSE IF Truthy(Get(firstType, "text")) THEN Get(firstType, "text")
    ELSE LET coding == Get(firstType, "coding") IN
      IF Truthy(coding) /\ LengthPositive(coding)
      THEN LET c == Index0(coding) IN
           IF Nullish(c) THEN TypeError
           ELSE IF Truthy(Get(c, "display")) THEN Get(c, "display")
           ELSE IF Truthy(Get(c, "code")) THEN Get(c, "code")
           ELSE Str("Unknown")
      ELSE Str("Unknown")

PeriodStart(enc) == OptGet(Get(enc, "period"), "start")

PeriodEnd(enc) == OptGet(Get(enc, "period"), "end")

PatientIdOf(enc) == extractPatientId(OptGet(Get(enc, "subject"), "reference"))

\* The loop body of analyzeEncounters throws a TypeError on this encounter.
EncounterThrows(enc) ==
  \/ getTypeDisplay(enc) = TypeError
  \/ PatientIdOf(enc) = TypeError

\* toMonthKey(dateStr): `${year}-${month}`, or Null
toMonthKey(dateStr) ==
  LET date == NewTime(dateStr) IN
  IF ~date.valid THEN Null
  ELSE LET local == LocalDay(date, date.t % 48)
       IN [year |-> local.y, month |-> local.m]

\* The buckets of createLosHistogram, bounds in hours; the last one is
\* unbounded (max: Infinity).
LosBuckets ==
  << [min |-> 0, max |-> 1, bounded |-> TRUE, label |-> "<1 hour", count |-> 0],
     [min |-> 1, max |-> 4, bounded |-> TRUE, label |-> "1-4 hours", count |-> 0],
     [min |-> 4, max |-> 8, bounded |-> TRUE, label |-> "4-8 hours", count |-> 0],
     [min |-> 8, max |-> 24, bounded |-> TRUE, label |-> "8-24 hours", count |-> 0],
     [min |-> 24, max |-> 48, bounded |-> TRUE, label |-> "1-2 days", count |-> 0],
     [min |-> 48, max |-> 72, bounded |-> TRUE, label |-> "2-3 days", count |-> 0],
     [min |-> 72, max |-> 168, bounded |-> TRUE, label |-> "3-7 days", count |-> 0],
     [min |-> 168, max |-> 336, bounded |-> TRUE, label |-> "1-2 weeks", count |-> 0],
     [min |-> 336, max |-> 720, bounded |-> TRUE, label |-> "2-4 weeks", count |-> 0],
     [min |-> 720, max |-> 0, bounded |-> FALSE, label |-> ">4 weeks", count |-> 0] >>

\* The buckets of createEncountersPerPatientHistogram.
PerPatientBuckets ==
  << [min |-> 1, max |-> 1, bounded |-> TRUE, label |-> "1", count |-> 0],
     [min |-> 2, max |-> 5, bounded |-> TRUE, label |-> "2-5", count |-> 0],
     [min |-> 6, max |-> 10, bounded |-> TRUE, label |-> "6-10", count |-> 0],
     [min |-> 11, max |-> 20, bounded |-> TRUE, label |-> "11-20", count |-> 0],
     [min |-> 21, max |-> 50, bounded |-> TRUE, label |-> "21-50", count |-> 0],
     [min |-> 51, max |-> 100, bounded |-> TRUE, label |-> "51-100", count |-> 0],
     [min |-> 101, max |-> 0, bounded |-> FALSE, label |-> ">100", count |-> 0] >>

\* Mutant of InLosBucket: the upper bound of a bucket belongs to it.
InLosBucketInclusive(los, bucket) ==
  los >= 2 * bucket.min /\ (~bucket.bounded \/ los <= 2 * bucket.max)

\* Mutant of InLosBucket: the last bucket is closed like the others.
InLosBucketClosed(los, bucket) ==
  los >= 2 * bucket.min /\ los < 2 * bucket.max

\* if (los >= bucket.min && los < bucket.max), los in half hours
InLosBucket(los, bucket) ==
  los >= 2 * bucket.min /\ (~bucket.bounded \/ los < 2 * bucket.max)

\* if (count >= bucket.min && count <= bucket.max)
InCountBucket(count, bucket) ==
  count >= bucket.min /\ (~bucket.bounded \/ count <= bucket.max)

\* The loops of the two histograms: each value increments the first bucket
\* that matches it, so a bucket ends with the number of values it is the
\* first match of.
FillBuckets(buckets, values, In(_, _)) ==
  [k \in 1..Len(buckets) |->
     [buckets[k] EXCEPT !.count =
        Cardinality({j \in 1..Len(values) :
                       /\ In(values[j], buckets[k])
                       /\ \A h \in 1..(k - 1) : ~In(values[j], buckets[h])})]]

\* buckets.filter((b) => b.count > 0)
NonEmptyBuckets(buckets) == SelectSeq(buckets, LAMBDA b : b.count > 0)

createLosHistogram(losHalfHours) ==
  NonEmptyBuckets(FillBuckets(LosBuckets, losHalfHours, InLosBucket))

createEncountersPerPatientHistogram(counts) ==
  NonEmptyBuckets(FillBuckets(PerPatientBuckets, counts, InCountBucket))

\* Mutant of calculateStatsOver: the median of an even number of values is
\* the upper one of the two middle values.
calculateStatsOverUpperMiddle(values, den) ==
  IF Len(values) = 0
  THEN [mean |-> 0, median |-> 0, min |-> 0, max |-> 0]
  ELSE LET n == Len(values)
           sorted == SortAsc(values)
       IN [mean |-> RoundTenths(Sum(values), n * den),
           median |-> RoundTenths(2 * sorted[n \div 2 + 1], 2 * den),
           min |-> sorted[1],
           max |-> sorted[n]]

\* calculateStats(values) of encounterAnalytics.ts for values given in units
\* of 1/den: mean and median in tenths, min and max in units of 1/den.
calculateStatsOver(values, den) ==
  IF Len(values) = 0
  THEN [mean |-> 0, median |-> 0, min |-> 0, max |-> 0]
  ELSE LET n == Len(values)
           sorted == SortAsc(values)
           median2 == IF n % 2 = 0 THEN sorted[n \div 2] + sorted[n \div 2 + 1]
                      ELSE 2 * sorted[n \div 2 + 1]
       IN [mean |-> RoundTenths(Sum(values), n * den),
           median |-> RoundTenths(median2, 2 * den),
           min |-> sorted[1],
           max |-> sorted[n]]

\* The month keys counted by the loop, in order: one per encounter whose
\* period.start is present and a valid date.
MonthKeysOf(encounters) ==
  LET all == [k \in 1..Len(encounters) |->
                IF Truthy(PeriodStart(encounters[k]))
                THEN toMonthKey(PeriodStart(encounters[k])) ELSE Null]
  IN SelectSeq(all, LAMBDA key : key # Null)

\* a[0].localeCompare(b[0]) < 0 for month keys
MonthBefore(a, b) == a.year < b.year \/ (a.year = b.year /\ a.month < b.month)

\* Array.from(monthCounts.entries()).sort(...).map(...)
RECURSIVE SortByMonth(_)
SortByMonth(items) ==
  IF items = <<>> THEN <<>>
  ELSE LET first == CHOOSE k \in 1..Len(items) :
                      \A j \in 1..Len(items) : ~MonthBefore(items[j].label, items[k].label)
       IN <<[date |-> items[first].label, count |-> items[first].count,
             label |-> [monthYear |-> items[first].label]]>>
          \o SortByMonth(SelectSeq(items, LAMBDA x : x # items[first]))

\* The valid period starts pushed by the loop.
PeriodDatesOf(encounters) ==
  LET all == [k \in 1..Len(encounters) |->
                IF Truthy(PeriodStart(encounters[k]))
                THEN NewTime(PeriodStart(encounters[k])) ELSE InvalidDate]
  IN SelectSeq(all, LAMBDA d : d.valid)

\* The lengths of stay pushed by the loop, in half hours.
LosOf(encounters) ==
  LET all == [k \in 1..Len(encounters) |->
                calculateLengthOfStay(PeriodStart(encounters[k]), PeriodEnd(encounters[k]))]
      defined == SelectSeq(all, LAMBDA x : x # Null)
  IN [k \in 1..Len(defined) |-> defined[k].n]

\* The DateRange of the period starts (ordered by getTime()).
PeriodCoverageOf(dates) ==
  IF dates = <<>>
  THEN [min |-> Null, max |-> Null,
        minFormatted |-> [text |-> "N/A"], maxFormatted |-> [text |-> "N/A"]]
  ELSE LET lo == CHOOSE d \in {dates[k] : k \in 1..Len(dates)} :
                   \A k \in 1..Len(dates) : d.t <= dates[k].t
           hi == CHOOSE d \in {dates[k] : k \in 1..Len(dates)} :
                   \A k \in 1..Len(dates) : d.t >= dates[k].t
       IN [min |-> lo, max |-> hi,
           minFormatted |-> [localeDate |-> lo], maxFormatted |-> [localeDate |-> hi]]

\* Mutant of MissingPeriodStart: a start that is no timestamp counts as missing.
MissingPeriodStartOrInvalid(enc) ==
  ~Truthy(PeriodStart(enc)) \/ ~NewTime(PeriodStart(enc)).valid

\* if (!periodStart) missingPeriodStart++
MissingPeriodStart(enc) == ~Truthy(PeriodStart(enc))

\* if (!periodEnd) missingPeriodEnd++
MissingPeriodEnd(enc) == ~Truthy(PeriodEnd(enc))

\* analyzeEncounters(encounters): the EncounterAnalytics returned, or the
\* TypeError that escapes.
analyzeEncounters(encounters) ==
  IF \E k \in 1..Len(encounters) : EncounterThrows(encounters[k]) THEN TypeError
  ELSE
  LET ids == {Get(encounters[k], "id") : k \in 1..Len(encounters)}
      withClass == SelectSeq(encounters, LAMBDA e : Truthy(Get(e, "class")))
      classCounts == CountAll(<<>>, [k \in 1..Len(withClass) |-> getClassDisplay(withClass[k])])
      typeCounts == CountAll(<<>>, [k \in 1..Len(encounters) |-> getTypeDisplay(encounters[k])])
      statusCounts == CountAll(<<>>, TruthyOf(encounters, LAMBDA e : Get(e, "status")))
      patientCounts == CountAll(<<>>, TruthyOf(encounters, PatientIdOf))
      perPatient == [k \in 1..Len(patientCounts) |-> patientCounts[k].count]
      losHalfHours == LosOf(encounters)
  IN [totalEncounters |-> Len(encounters),
      uniqueEncounterIds |-> Cardinality({id \in ids : Truthy(id)}),
      uniquePatientRefs |-> Len(patientCounts),
      classDistribution |-> createDistribution(classCounts),
      typeDistribution |-> Slice0(createDistribution(typeCounts), 15),
      statusDistribution |-> createDistribution(statusCounts),
      encountersByMonth |-> SortByMonth(CountAll(<<>>, MonthKeysOf(encounters))),
      periodCoverage |-> PeriodCoverageOf(PeriodDatesOf(encounters)),
      losDistribution |-> createLosHistogram(losHalfHours),
      losStats |-> [stats |-> calculateStatsOver(losHalfHours, 48),
                    encountersWithLos |-> Len(losHalfHours)],
      encountersPerPatient |-> createEncountersPerPatientHistogram(perPatient),
      encountersPerPatientStats |-> calculateStatsOver(perPatient, 1),
      missingPeriodStart |-> Count(encounters, MissingPeriodStart),
      missingPeriodEnd |-> Count(encounters, MissingPeriodEnd),
      missingClass |-> Count(encounters, LAMBDA e : ~Truthy(Get(e, "class"))),
      missingSubject |-> Count(encounters, LAMBDA e : ~Truthy(PatientIdOf(e)))]

(***************************************************************************)
(* The dashboard: App.renderDashboard routes the parsed records by the     *)
(* detected kind; PatientDashboard and EncounterDashboard call the         *)
(* analyzer on what they are given.                                        *)
(***************************************************************************)
\* Mutant of isPatient: every resource passes the guard.
isPatientAny(resource) == TRUE

\* isPatient(resource)
isPatient(resource) == Get(resource, "resourceType") = Str("Patient")

\* isEncounter(resource)
isEncounter(resource) == Get(resource, "resourceType") = Str("Encounter")

\* Mutant of LeftByAnalyzePatients: the argument is reversed in place.
LeftReversed(patients) == [k \in 1..Len(patients) |-> patients[Len(patients) + 1 - k]]

\* The array an analyzer was given, as the call leaves it: both analyzers
\* only read their argument (they sort copies and local arrays).
LeftByAnalyzePatients(patients) == patients

LeftByAnalyzeEncounters(encounters) == encounters

\* The days the clock shows, in order.
Clock == <<Day(2026, 6, 14), Day(2026, 6, 15)>>

\* switch (resourceType) of renderDashboard and the analyzer call inside the
\* dashboard component.
Route(parsed, day) ==
  CASE parsed.resourceType = Str("Patient") ->
         LET patients == SelectSeq(parsed.resources, isPatient) IN
         [analyzer |-> "analyzePatients",
          given |-> patients,
          left |-> LeftByAnalyzePatients(patients),
          day |-> day,
          analytics |-> analyzePatients(patients, day)]
    [] parsed.resourceType = Str("Encounter") ->
         LET encounters == SelectSeq(parsed.resources, isEncounter) IN
         [analyzer |-> "analyzeEncounters",
          given |-> encounters,
          left |-> LeftByAnalyzeEncounters(encounters),
          day |-> day,
          analytics |-> analyzeEncounters(encounters)]
    [] OTHER ->
         [analyzer |-> "generic",
          given |-> parsed.resources,
          left |-> parsed.resources,
          day |-> day,
          analytics |-> Null]

\* The clock moves on to the next day.  Only the analyzer reads it, so its
\* advance is placed before the analyzer runs.
Tick ==
  /\ pc = "parsed"
  /\ \E k \in 1..(Len(Clock) - 1) : today = Clock[k] /\ today' = Clock[k + 1]
  /\ UNCHANGED <<uiVars, looks, previews, input, zone, pc, parserVars, result, analyzed, run, prev>>

\* The dashboard renders: the analyzer returns, or its TypeError escapes.
Analyze ==
  /\ pc = "parsed"
  /\ analyzed' = Route(result, today)
  /\ pc' = IF analyzed'.analytics = TypeError THEN "crashed" ELSE "analyzed"
  /\ UNCHANGED <<uiVars, looks, previews, input, zone, parserVars, result, today, run, prev>>

\* The same text is submitted again (Start Over, then Analyze).
Rerun ==
  /\ pc \in {"analyzed", "crashed"}
  /\ run < MaxRuns
  /\ prev' = [result |-> result, analyzed |-> analyzed]
  /\ run' = run + 1
  /\ pc' = "idle"
  /\ UNCHANGED <<uiVars, looks, previews, input, zone, parserVars, result, today, analyzed>>

(***************************************************************************)
(* Input texts.                                                            *)
(***************************************************************************)
Ext(url, sub) == Obj([url |-> Str(url), extension |-> Arr(sub)])

SubCoding(url, display) ==
  Obj([url |-> Str(url), valueCoding |-> Obj([display |-> Str(display)])])

SubText(value) == Obj([url |-> Str(TEXT_URL), valueString |-> Str(value)])

Address(state, city) == Arr(<<Obj([state |-> Str(state), city |-> Str(city)])>>)

PatientValues ==
  { Obj([resourceType |-> Str("Patient"), id |-> Str("p1"), gender |-> Str("male"),
         birthDate |-> Str("1990-06-15"), address |-> Address("MA", "Boston"),
         extension |-> Arr(<<Ext(US_CORE_RACE_URL, <<SubCoding(OMB_CATEGORY_URL, "White"),
                                                     SubText("White")>>),
                             Ext(US_CORE_ETHNICITY_URL, <<SubText("Not Hispanic")>>)>>)]),
    Obj([resourceType |-> Str("Patient"), id |-> Str("p2"), gender |-> Str("female"),
         birthDate |-> Str("2000-01-01"), deceasedDateTime |-> Str("2020-03-01"),
         address |-> Address("CA", "Boston"),
         extension |-> Arr(<<Ext(US_CORE_RACE_URL, <<SubCoding(DETAILED_URL, "Asian")>>)>>)]),
    Obj([resourceType |-> Str("Patient"), id |-> Str("p1"), birthDate |-> Str("1900-01-01"),
         address |-> Arr(<<>>)]),
    Obj([resourceType |-> Str("Patient"), gender |-> Str("male"),
         birthDate |-> Str("2030-01-01"), deceasedBoolean |-> Bool(TRUE)]),
    Obj([resourceType |-> Str("Patient"), id |-> Str("p3"), gender |-> Str("female"),
         birthDate |-> Str("bad-date"), deceasedBoolean |-> Bool(FALSE),
         address |-> Address("MA", "Salem")]),
    Obj([resourceType |-> Str("Patient"), birthDate |-> Str("1990-06-15"),
         deceasedDateTime |-> Str("bad-date")]),
    Obj([resourceType |-> Str("Patient")]),
    Obj([resourceType |-> Str("Patient"), gender |-> Str("female"),
         extension |-> Arr(<<Ext(US_CORE_ETHNICITY_URL,
                                 <<SubCoding(DETAILED_URL, "Mexican")>>),
                             Ext(US_CORE_RACE_URL, <<SubText("Mixed")>>)>>)]),
    Obj([resourceType |-> Str("Patient"), extension |-> Num(5)]),
    Obj([resourceType |-> Str("Patient"), extension |-> Arr(<<Null>>)]),
    Obj([resourceType |-> Str("Patient"),
         extension |-> Arr(<<Obj([url |-> Str(US_CORE_RACE_URL), extension |-> Bool(TRUE)])>>)]),
    Obj([resourceType |-> Str("Patient"), address |-> Arr(<<Null>>)]),
    Obj([resourceType |-> Str("Patient"), address |-> Obj([length |-> Num(1)])]) }

Period(start, end) == Obj([start |-> Str(start), end |-> Str(end)])

EncounterValues ==
  { Obj([resourceType |-> Str("Encounter"), id |-> Str("e1"), status |-> Str("finished"),
         class |-> Obj([code |-> Str("AMB")]),
         type |-> Arr(<<Obj([text |-> Str("Checkup")])>>),
         period |-> Period("2024-01-15T09:00:00Z", "2024-01-15T09:30:00Z"),
         subject |-> Obj([reference |-> Str("Patient/p1")])]),
    Obj([resourceType |-> Str("Encounter"), id |-> Str("e2"), status |-> Str("planned"),
         class |-> Obj([code |-> Str("IMP"), display |-> Str("Inpatient stay")]),
         type |-> Arr(<<Obj([coding |-> Arr(<<Obj([display |-> Str("Admission")])>>)])>>),
         period |-> Period("2024-01-16T09:00:00Z", "2024-03-01T00:00:00Z"),
         subject |-> Obj([reference |-> Str("urn:uuid:p1")])]),
    Obj([resourceType |-> Str("Encounter"), id |-> Str("e1"), status |-> Str("finished"),
         class |-> Obj([code |-> Str("XYZ")]),
         type |-> Arr(<<Obj([coding |-> Arr(<<Obj([code |-> Str("c1")])>>)])>>),
         period |-> Period("2024-01-16T09:00:00Z", "2024-01-15T09:00:00Z"),
         subject |-> Obj([reference |-> Str("Patient/p2")])]),
    Obj([resourceType |-> Str("Encounter"),
         class |-> Obj([system |-> Str("v3-ActCode")]),
         type |-> Arr(<<Obj([coding |-> Arr(<<>>)])>>),
         period |-> Obj([start |-> Str("bad-date")]),
         subject |-> Obj([reference |-> Str("Patient/")])]),
    Obj([resourceType |-> Str("Encounter")]),
    Obj([resourceType |-> Str("Encounter"), id |-> Str("e5"),
         class |-> Obj([code |-> Str("EMER")]),
         period |-> Period("bad-date", "2024-03-01T00:00:00Z"),
         subject |-> Obj([reference |-> Str("Patient/p1")])]),
    Obj([resourceType |-> Str("Encounter"), id |-> Str("e6"),
         class |-> Obj([code |-> Str("constructor")]),
         period |-> Period("2024-01-15T09:00:00Z", "bad-date")]),
    Obj([resourceType |-> Str("Encounter"), type |-> Arr(<<>>),
         period |-> Obj([end |-> Str("2024-03-01T00:00:00Z")]),
         subject |-> Obj([reference |-> Str("p2")])]),
    Obj([resourceType |-> Str("Encounter"), type |-> Num(5)]),
    Obj([resourceType |-> Str("Encounter"), type |-> Arr(<<Null>>)]),
    Obj([resourceType |-> Str("Encounter"),
         type |-> Arr(<<Obj([coding |-> Arr(<<Null>>)])>>)]),
    Obj([resourceType |-> Str("Encounter"), subject |-> Obj([reference |-> Num(5)])]) }

\* A line holding one JSON text.
JsonLine(v) == <<Json(v)>>

\* The lines the parser tells apart: blank ones, undecodable ones, values
\* that are no object, objects without a usable resourceType, and records.
CoreLines ==
  { <<>>, <<WS>>, <<Garbage(FALSE)>>, JsonLine(Null),
    JsonLine(Obj([id |-> Str("x")])),
    JsonLine(Obj([resourceType |-> Str("")])),
    <<WS, Json(Obj([resourceType |-> Str("Patient"), id |-> Str("p1"),
                    gender |-> Str("male"), birthDate |-> Str("1990-06-15")])), WS>>,
    JsonLine(Obj([resourceType |-> Str("Encounter"), id |-> Str("e1")])),
    JsonLine(Obj([resourceType |-> Str("Unknown")])) }

WideLines ==
  CoreLines \cup
  { <<Garbage(TRUE)>>, JsonLine(Num(42)), JsonLine(Str("Patient")), JsonLine(Arr(<<>>)),
    JsonLine(Obj([resourceType |-> Num(1)])),
    JsonLine(Obj([resourceType |-> Null])),
    JsonLine(Obj([resourceType |-> Str("Observation")])),
    <<Json(Obj([resourceType |-> Str("Patient")])), WS,
      Json(Obj([resourceType |-> Str("Patient")]))>> }

SeqsUpTo(S, n) == UNION {[1..k -> S] : k \in 0..n}

\* The text whose lines are ls: the lines with a newline between them.
RECURSIVE Join(_)
Join(ls) ==
  IF ls = <<>> THEN <<>>
  ELSE IF Len(ls) = 1 THEN ls[1]
  ELSE ls[1] \o <<NL>> \o Join(Tail(ls))

Repeat(line, n) == [k \in 1..n |-> line]

\* Texts with about MAX_ERRORS_STORED invalid lines, after and before records.
CapTexts ==
  { Join(head \o Repeat(<<Garbage(FALSE)>>, n) \o tail) :
      head \in { <<>>,
                 <<JsonLine(Obj([resourceType |-> Str("Patient")]))>>,
                 <<JsonLine(Obj([resourceType |-> Str("Patient")])),
                   JsonLine(Obj([resourceType |-> Str("Encounter")]))>> },
      tail \in { <<>>, <<JsonLine(Obj([resourceType |-> Str("Encounter")]))>> },
      n \in (MAX_ERRORS_STORED - 1)..(MAX_ERRORS_STORED + Extra) }

\* n patients in n different states and cities, the second of them twice.
ManyPatients(n) ==
  [k \in 1..(n + 1) |->
     LET j == IF k = n + 1 THEN 2 ELSE k IN
     JsonLine(Obj([resourceType |-> Str("Patient"), gender |-> Str("female"),
                   address |-> Address("S" \o ToString(j), "C" \o ToString(j))]))]

\* n encounters of n different types, the second of them twice.
ManyEncounters(n) ==
  [k \in 1..(n + 1) |->
     LET j == IF k = n + 1 THEN 2 ELSE k IN
     JsonLine(Obj([resourceType |-> Str("Encounter"), status |-> Str("finished"),
                   type |-> Arr(<<Obj([text |-> Str("T" \o ToString(j))])>>)]))]

ManyTexts ==
  { Join(ManyPatients(n)) : n \in (15..(15 + Extra)) \cup (20..(20 + Extra)) }
  \cup { Join(ManyEncounters(n)) : n \in 15..(15 + Extra) }

\* Ends of a period that starts at 2024-01-15T09:00:00Z: the start itself,
\* the bounds of the duration buckets, and half an hour before some of them.
LosEnds ==
  { "2024-01-15T09:00:00Z", "2024-01-15T09:30:00Z", "2024-01-15T10:00:00Z",
    "2024-01-15T13:00:00Z", "2024-01-15T17:00:00Z", "2024-01-16T08:30:00Z",
    "2024-01-16T09:00:00Z", "2024-01-17T09:00:00Z", "2024-01-18T09:00:00Z",
    "2024-01-22T09:00:00Z", "2024-01-29T09:00:00Z", "2024-02-14T08:30:00Z",
    "2024-02-14T09:00:00Z" }

\* One or two encounters with such periods.
LosTexts ==
  { Join([k \in DOMAIN ends |->
            JsonLine(Obj([resourceType |-> Str("Encounter"),
                          period |-> Period("2024-01-15T09:00:00Z", ends[k])]))]) :
      ends \in [1..1 -> LosEnds] \cup [1..2 -> LosEnds] }

RecordTexts ==
  { Join([k \in DOMAIN vs |-> JsonLine(vs[k])]) :
      vs \in SeqsUpTo(PatientValues, MaxRecs) \cup SeqsUpTo(EncounterValues, MaxRecs) }

Inputs ==
  { Join(ls) : ls \in SeqsUpTo(CoreLines, MaxLen) \cup SeqsUpTo(WideLines, MaxWide) }
  \cup RecordTexts \cup CapTexts \cup ManyTexts \cup LosTexts

(***************************************************************************)
(* The user interface: App (src/unnamed/part_006) with its localStorage    *)
(* hook, and NdjsonInput, which App renders while view is 'input'.  One    *)
(* action is one browser task: an event handler or a scheduled callback,   *)
(* together with the render that follows it.                               *)
(***************************************************************************)
\* The lines typed into the textarea.
UILines ==
  { <<>>, <<WS>>, <<Garbage(FALSE)>>,
    JsonLine(Obj([resourceType |-> Str("")])),
    JsonLine(Obj([resourceType |-> Str("Patient"), id |-> Str("p1")])) }

\* The texts the textarea is changed to by typing.
TypedTexts == { Join(ls) : ls \in SeqsUpTo(UILines, MaxTyped) }

\* The texts on the clipboard.
PastedTexts ==
  { <<Garbage(FALSE)>>,
    <<NL>> \o JsonLine(Obj([resourceType |-> Str("Encounter"), id |-> Str("e1")])) }

\* The texts localStorage holds when the page loads or another tab writes:
\* none, or a text that was analyzed before.
StoredTexts ==
  { <<>>, JsonLine(Obj([resourceType |-> Str("Patient"), id |-> Str("p1")])) }

\* parseNdjson returns; or the engine throws out of it (a RangeError when
\* the text is too large to split or to collect).
ParseOutcomes == {"returned", "threw"}

\* Whether localStorage.setItem stores the item or throws for lack of quota.
SetItemOutcomes == {"stored", "QuotaExceededError"}

\* The state NdjsonInput is mounted with: useState(storedInput || ''),
\* 'empty', null, 0.
Mount(stored) ==
  /\ inputText' = stored
  /\ validationStatus' = "empty"
  /\ previewType' = Null
  /\ lineCount' = 0
  /\ timers' = <<>>

\* NdjsonInput is not rendered: its state is gone, and the timeouts still
\* pending call the setters of an unmounted component, which changes nothing.
Unmount ==
  /\ inputText' = <<>>
  /\ validationStatus' = "empty"
  /\ previewType' = Null
  /\ lineCount' = 0
  /\ timers' = <<>>

\* value.split('\n').filter((l) => l.trim()).length
NonEmptyLines(text) ==
  LET ls == Split(text) IN Cardinality({k \in 1..Len(ls) : Trim(ls[k]) # <<>>})

\* handleChange(value) of NdjsonInput.
handleChange(value) ==
  /\ inputText' = value
  /\ IF TrimText(value) = <<>>
     THEN /\ validationStatus' = "empty"
          /\ previewType' = Null
          /\ lineCount' = 0
     ELSE /\ lineCount' = NonEmptyLines(value)
          /\ IF looksLikeNdjson(value)
             THEN /\ validationStatus' = "valid"
                  /\ LET preview == getPreview(value, 1) IN
                     previewType' = IF Len(preview.resources) > 0
                                    THEN Get(preview.resources[1], "resourceType")
                                    ELSE previewType
             ELSE /\ validationStatus' = "invalid"
                  /\ previewType' = Null

\* The textarea's onChange: the user edits the text.
onChange ==
  /\ view = "input" /\ ~isLoading
  /\ \E value \in TypedTexts : handleChange(value)
  /\ UNCHANGED <<pipelineVars, appVars, timers>>

\* The textarea's onPaste, handlePaste, schedules handleChange(input +
\* pastedText); then the browser inserts the clipboard text at the caret,
\* here at the end or at the start of the text, and onChange follows.
handlePaste ==
  /\ view = "input" /\ ~isLoading
  /\ Len(timers) < MaxTimers
  /\ \E pastedText \in PastedTexts :
       /\ Len(inputText) + Len(pastedText) <= MaxText
       /\ timers' = Append(timers, inputText \o pastedText)
       /\ \E value \in {inputText \o pastedText, pastedText \o inputText} :
            handleChange(value)
  /\ UNCHANGED <<pipelineVars, appVars>>

\* The callback of setTimeout(() => handleChange(input + pastedText), 0).
pasteTimeout ==
  /\ view = "input"
  /\ timers # <<>>
  /\ handleChange(Head(timers))
  /\ timers' = Tail(timers)
  /\ UNCHANGED <<pipelineVars, appVars>>

\* clearValue of useLocalStorage.
clearStoredInput ==
  /\ storedInput' = <<>>
  /\ storageItem' = <<>>

\* The Clear button (shown while input is not empty): handleClear.
handleClear ==
  /\ view = "input" /\ ~isLoading
  /\ inputText # <<>>
  /\ inputText' = <<>>
  /\ validationStatus' = "empty"
  /\ previewType' = Null
  /\ lineCount' = 0
  /\ clearStoredInput
  /\ UNCHANGED <<pipelineVars, view, parseResult, activeTab, isLoading, frames,
                 outcome, timers>>

\* The Load Previous Data button (shown while storedInput && !input).
loadPrevious ==
  /\ view = "input"
  /\ storedInput # <<>> /\ inputText = <<>>
  /\ handleChange(storedInput)
  /\ UNCHANGED <<pipelineVars, appVars, timers>>

\* handleAnalyze(input) of App: the indicator is set and the parse is
\* scheduled for the next animation frame.
handleAnalyze(text) ==
  /\ isLoading' = TRUE
  /\ frames' = Append(frames, text)

\* The Analyze button (disabled unless validationStatus is 'valid' and
\* isLoading is false): handleSubmit.
handleSubmit ==
  /\ view = "input" /\ ~isLoading
  /\ validationStatus = "valid"
  /\ IF TrimText(inputText) # <<>>
     THEN handleAnalyze(inputText)
     ELSE UNCHANGED <<isLoading, frames>>
  /\ UNCHANGED <<pipelineVars, view, parseResult, activeTab, storedInput,
                 storageItem, outcome, inputVars>>

\* setValue of useLocalStorage: the state is set, then the item is written,
\* which may throw; the error is caught and logged.
setStoredInput(text) ==
  /\ storedInput' = text
  /\ \E written \in SetItemOutcomes :
       storageItem' = IF written = "stored" THEN <<text>> ELSE storageItem

\* Mutant of animationFrame: isLoading is reset at the end of the try block
\* instead of in a finally block.
animationFrameWithoutFinally ==
  /\ frames # <<>>
  /\ frames' = Tail(frames)
  /\ \E parse \in ParseOutcomes :
       /\ outcome' = parse
       /\ IF parse = "returned"
          THEN /\ \E ms \in ElapsedMs : parseResult' = parseNdjson(Head(frames), ms)
               /\ setStoredInput(Head(frames))
               /\ view' = "dashboard"
               /\ activeTab' = "overview"
               /\ isLoading' = FALSE
               /\ Unmount
          ELSE UNCHANGED <<parseResult, storedInput, storageItem, view, activeTab,
                           isLoading, inputVars>>
  /\ UNCHANGED pipelineVars

\* The requestAnimationFrame callback of handleAnalyze: try the parse and
\* the four setters, catch and log, finally setIsLoading(false).  The render
\* that follows shows the dashboard instead of NdjsonInput.
animationFrame ==
  /\ frames # <<>>
  /\ frames' = Tail(frames)
  /\ isLoading' = FALSE
  /\ \E parse \in ParseOutcomes :
       /\ outcome' = parse
       /\ IF parse = "returned"
          THEN /\ \E ms \in ElapsedMs : parseResult' = parseNdjson(Head(frames), ms)
               /\ setStoredInput(Head(frames))
               /\ view' = "dashboard"
               /\ activeTab' = "overview"
               /\ Unmount
          ELSE UNCHANGED <<parseResult, storedInput, storageItem, view, activeTab,
                           inputVars>>
  /\ UNCHANGED pipelineVars

\* Mutant of handleReset: the stored input is cleared as well.
handleResetAndClear ==
  /\ view = "dashboard" /\ parseResult # Null
  /\ view' = "input"
  /\ parseResult' = Null
  /\ activeTab' = "overview"
  /\ clearStoredInput
  /\ Mount(<<>>)
  /\ UNCHANGED <<pipelineVars, isLoading, frames, outcome>>

\* The Start Over button of ParseResultHeader (rendered while parseResult is
\* not null): handleReset.  The render that follows mounts NdjsonInput.
handleReset ==
  /\ view = "dashboard" /\ parseResult # Null
  /\ view' = "input"
  /\ parseResult' = Null
  /\ activeTab' = "overview"
  /\ Mount(storedInput)
  /\ UNCHANGED <<pipelineVars, isLoading, storedInput, storageItem, frames, outcome>>

\* TabNavigation's onTabChange: setActiveTab.
onTabChange ==
  /\ view = "dashboard"
  /\ \E tab \in {"overview", "data"} : activeTab' = tab
  /\ UNCHANGED <<pipelineVars, view, parseResult, isLoading, storedInput,
                 storageItem, frames, outcome, inputVars>>

\* The storage listener of useLocalStorage: another tab has written the item.
handleStorageChange ==
  /\ \E text \in StoredTexts \ {<<>>} :
       /\ storedInput' = text
       /\ storageItem' = <<text>>
  /\ UNCHANGED <<pipelineVars, view, parseResult, activeTab, isLoading, frames,
                 outcome, inputVars>>

vars == <<pipelineVars, uiVars>>

\* No text has been handed to the parser functions yet.
PipelineAtStart ==
  /\ pc = "typed"
  /\ lines = <<>>
  /\ i = 0
  /\ resources = <<>>
  /\ errors = <<>>
  /\ detectedResourceType = Null
  /\ resourceTypeMismatchCount = 0
  /\ validLines = 0
  /\ invalidLines = 0
  /\ result = Null
  /\ today = Clock[1]
  /\ analyzed = Null
  /\ run = 1
  /\ prev = Null
  /\ looks = Null
  /\ previews = Null

\* App and NdjsonInput as they are mounted when the page loads with the
\* text `stored` in localStorage (none: the empty text).
PageLoaded(stored) ==
  /\ view = "input"
  /\ parseResult = Null
  /\ activeTab = "overview"
  /\ isLoading = FALSE
  /\ storedInput = stored
  /\ storageItem = IF stored = <<>> THEN <<>> ELSE <<stored>>
  /\ frames = <<>>
  /\ outcome = "none"
  /\ inputText = stored
  /\ validationStatus = "empty"
  /\ previewType = Null
  /\ lineCount = 0
  /\ timers = <<>>

Init ==
  /\ input \in Inputs
  /\ zone \in Zones
  /\ PipelineAtStart
  /\ PageLoaded(<<>>)

Next ==
  \/ Precheck
  \/ ParseStart
  \/ ParseLine
  \/ ParseFinish
  \/ Tick
  \/ Analyze
  \/ Rerun

Spec == Init /\ [][Next]_vars

\* The page: the user's events and the scheduled callbacks.
InitUI ==
  /\ input = <<>>
  /\ zone = 0
  /\ PipelineAtStart
  /\ \E stored \in StoredTexts : PageLoaded(stored)

NextUI ==
  \/ onChange
  \/ handlePaste
  \/ pasteTimeout
  \/ handleClear
  \/ loadPrevious
  \/ handleSubmit
  \/ animationFrame
  \/ handleReset
  \/ onTabChange
  \/ handleStorageChange

SpecUI == InitUI /\ [][NextUI]_vars

\* A step that takes the first pending callback off the pending ones: in
\* NextUI these are the steps of animationFrame, which is enabled whenever a
\* callback is pending.
FrameStep == frames # <<>> /\ frames' = Tail(frames)

\* The browser runs a requested animation frame callback before its next
\* repaint: a pending callback is run eventually.
SpecUILive == SpecUI /\ WF_frames(FrameStep)

(***************************************************************************)
(* Properties.  The notions below are read off the input text itself, not  *)
(* off the parser's variables.                                             *)
(***************************************************************************)
Done == pc \in {"parsed", "analyzed", "crashed"}

\* The positions of the newlines of a text, and its pieces between them.
NewlinesOf(text) == {k \in 1..Len(text) : text[k] = NL}

PieceCount(text) == Cardinality(NewlinesOf(text)) + 1

Piece(text, j) ==
  LET nl == NewlinesOf(text)
      Nth(n) == IF n = 0 THEN 0
                ELSE IF n > Cardinality(nl) THEN Len(text) + 1
                ELSE CHOOSE q \in nl : Cardinality({r \in nl : r < q}) = n - 1
  IN SubSeq(text, Nth(j - 1) + 1, Nth(j) - 1)

\* A piece is blank when it holds nothing but whitespace.
IsBlank(piece) == \A k \in 1..Len(piece) : piece[k] = WS

\* The value a piece decodes to, when it is one JSON text with whitespace
\* around it at most.
IsOneJson(piece) ==
  \E k \in 1..Len(piece) :
    /\ piece[k].t = "json"
    /\ \A j \in 1..Len(piece) : j # k => piece[j] = WS

ValueOf(piece) == (CHOOSE tok \in {piece[k] : k \in 1..Len(piece)} : tok.t = "json").v

\* The piece decodes to an object that has the discriminator field.
CarriesDiscriminator(piece) ==
  /\ IsOneJson(piece)
  /\ ValueOf(piece).t = "obj"
  /\ "resourceType" \in DOMAIN ValueOf(piece).o

\* ... and the discriminator is neither empty, zero, null nor false.
IsRecord(piece) ==
  /\ CarriesDiscriminator(piece)
  /\ ValueOf(piece).o.resourceType \notin {Str(""), Num(0), Null, Bool(FALSE)}

\* The pieces 1..n of the text that satisfy P, as indices.
PiecesWhere(text, n, P(_)) == {j \in 1..n : P(Piece(text, j))}

\* The values of the pieces in `which`, in input order.
RECURSIVE ValuesInOrder(_, _)
ValuesInOrder(text, which) ==
  IF which = {} THEN <<>>
  ELSE LET last == CHOOSE j \in which : \A h \in which : h <= j
       IN Append(ValuesInOrder(text, which \ {last}), ValueOf(Piece(text, last)))

\* C1: totalLines = blankLines + validLines + invalidLines, the lines being
\* the pieces of the input between newlines and the blank ones those that are
\* empty after trimming; along the loop every non-blank line read so far is
\* counted once, as valid or as invalid.
C1_LineAccounting ==
  /\ pc = "parsing" =>
       i = Cardinality(PiecesWhere(input, i, IsBlank)) + validLines + invalidLines
  /\ Done =>
       /\ result.totalLines = PieceCount(input)
       /\ result.totalLines =
            Cardinality(PiecesWhere(input, PieceCount(input), IsBlank))
            + result.validLines + result.invalidLines

\* A text with a blank, a valid and an invalid line has been parsed.
C1_Witness ==
  /\ Done
  /\ PiecesWhere(input, PieceCount(input), IsBlank) # {}
  /\ result.validLines > 0
  /\ result.invalidLines > 0

\* The discriminator of the first record among the pieces 1..n, Null when
\* there is none.
FirstRecordType(text, n) ==
  LET recs == PiecesWhere(text, n, IsRecord) IN
  IF recs = {} THEN Null
  ELSE ValueOf(Piece(text, CHOOSE j \in recs : \A h \in recs : j <= h)).o.resourceType

AllPieces(text, P(_)) == PiecesWhere(text, PieceCount(text), P)

\* C2 as claimed: the detected kind is the discriminator of the first valid
\* line and no later line changes it; the returned resourceType is that
\* value, and is "Unknown" exactly when no line parsed successfully.
C2_Original ==
  /\ (pc = "parsing" \/ Done) => detectedResourceType = FirstRecordType(input, i)
  /\ Done =>
       /\ AllPieces(input, IsRecord) # {} =>
            result.resourceType = FirstRecordType(input, PieceCount(input))
       /\ result.resourceType = Str("Unknown") <=> AllPieces(input, IsRecord) = {}

\* C2 as amended: the detected kind is the discriminator of the first valid
\* line and no later line changes it; the returned resourceType is that
\* value, and is "Unknown" whenever no line parsed successfully; it is
\* "Unknown" also when the first valid record's discriminator is "Unknown".
C2_FirstKindWins ==
  /\ (pc = "parsing" \/ Done) => detectedResourceType = FirstRecordType(input, i)
  /\ Done =>
       /\ AllPieces(input, IsRecord) # {} =>
            result.resourceType = FirstRecordType(input, PieceCount(input))
       /\ AllPieces(input, IsRecord) = {} => result.resourceType = Str("Unknown")
       /\ result.resourceType = Str("Unknown") =>
            \/ AllPieces(input, IsRecord) = {}
            \/ FirstRecordType(input, PieceCount(input)) = Str("Unknown")

\* Two records of different kinds were parsed and the first one's kind is
\* the result's.
C2_Witness ==
  /\ Done
  /\ Len(result.resources) >= 2
  /\ Get(result.resources[2], "resourceType") # Get(result.resources[1], "resourceType")
  /\ result.resourceType = Get(result.resources[1], "resourceType")

\* C3 as claimed: the records are exactly the non-blank lines that decode to
\* an object carrying the discriminator field, in input order, and
\* validLines is their number.
C3_Original ==
  Done =>
    /\ result.resources = ValuesInOrder(input, AllPieces(input, CarriesDiscriminator))
    /\ result.validLines = Len(result.resources)

\* C3 as amended: the records are exactly the non-blank lines that decode to
\* an object whose discriminator field is truthy (not empty, zero, null or
\* false), in input order, whatever their kind and whatever invalid lines
\* come before them; validLines is their number.
C3_RecordsAreTheValidLines ==
  /\ pc = "parsing" =>
       resources = ValuesInOrder(input, PiecesWhere(input, i, IsRecord))
  /\ Done =>
       /\ result.resources = ValuesInOrder(input, AllPieces(input, IsRecord))
       /\ result.validLines = Len(result.resources)

\* A record of another kind than the detected one, behind an invalid line,
\* is in the records.
C3_Witness ==
  /\ Done
  /\ result.invalidLines > 0
  /\ \E k \in 1..Len(result.resources) :
       Get(result.resources[k], "resourceType") # result.resourceType
  /\ \E j \in AllPieces(input, IsRecord) :
       \E h \in 1..(j - 1) : ~IsBlank(Piece(input, h)) /\ ~IsRecord(Piece(input, h))

\* The pieces counted invalid: not blank and no record.
IsInvalid(piece) == ~IsBlank(piece) /\ ~IsRecord(piece)

HasSummary(errs) == \E k \in 1..Len(errs) : errs[k].lineNumber = 0

Mismatching(text) ==
  {j \in AllPieces(text, IsRecord) :
     ValueOf(Piece(text, j)).o.resourceType # FirstRecordType(text, PieceCount(text))}

\* C5: the diagnostics start with one synthetic entry of lineNumber 0 if and
\* only if some valid record's discriminator differs from the detected kind
\* and fewer than 50 per-line diagnostics were stored; its message states the
\* number of such records and the detected kind.
C5_MismatchSummary ==
  Done =>
    LET errs == result.errors
        perLine == SelectSeq(errs, LAMBDA e : e.lineNumber # 0)
        atFront == errs # <<>> /\ errs[1].lineNumber = 0
    IN /\ atFront <=> (Mismatching(input) # {} /\ Len(perLine) < MAX_ERRORS_STORED)
       /\ \A k \in 2..Len(errs) : errs[k].lineNumber # 0
       /\ atFront =>
            /\ errs[1].message.count = Cardinality(Mismatching(input))
            /\ errs[1].message.type = FirstRecordType(input, PieceCount(input))

\* Two records of different kinds and an invalid line: the summary is in
\* front of the line's diagnostic and states 1 mismatch.
C5_Witness ==
  /\ Done
  /\ Len(result.resources) = 2
  /\ Len(result.errors) = 2
  /\ result.errors[1].lineNumber = 0
  /\ result.errors[1].message.count = 1
  /\ result.errors[2].lineNumber > 0

\* C6 as claimed: the empty string yields totalLines = 0, validLines = 0,
\* invalidLines = 0, no records, no diagnostics and kind "Unknown".
C6_Original ==
  (Done /\ input = <<>>) =>
    /\ result.totalLines = 0
    /\ result.validLines = 0
    /\ result.invalidLines = 0
    /\ result.resources = <<>>
    /\ result.errors = <<>>
    /\ result.resourceType = Str("Unknown")

\* C6 as amended: the empty string yields totalLines = 1 (its one, blank,
\* piece), validLines = 0, invalidLines = 0, no records, no diagnostics and
\* kind "Unknown"; the parse returns.
C6_EmptyInput ==
  (Done /\ input = <<>>) =>
    /\ result.totalLines = 1
    /\ result.validLines = 0
    /\ result.invalidLines = 0
    /\ result.resources = <<>>
    /\ result.errors = <<>>
    /\ result.resourceType = Str("Unknown")

\* The empty string has been parsed.
C6_Witness == pc = "parsed" /\ input = <<>>

\* C7 as claimed: no exception escapes parseNdjson or the analyzer routed by
\* kind; every analysis ends with a result object.
C7_NoExceptionEscapes ==
  /\ Done => result # Null
  /\ pc # "crashed"
  /\ pc = "analyzed" => analyzed.analytics # TypeError

AnalyzedTwice == run > 1 /\ pc \in {"analyzed", "crashed"}

SameButElapsed(a, b) == [a EXCEPT !.parseTimeMs = 0] = [b EXCEPT !.parseTimeMs = 0]

Untouched(a) == a.left = a.given

WithoutAges(a) ==
  IF a # TypeError /\ "ageStats" \in DOMAIN a
  THEN [a EXCEPT !.ageStats = 0, !.ageDistribution = 0]
  ELSE a

RECURSIVE SumPercentages(_)
SumPercentages(items) ==
  IF items = <<>> THEN 0 ELSE Head(items).percentage + SumPercentages(Tail(items))

\* The percentages sum to 100 within 0.01 (in units of 1/10000 percent).
Closed(dist) ==
  dist # <<>> =>
    (SumPercentages(dist) - 1000000 <= 100 /\ 1000000 - SumPercentages(dist) <= 100)

ByPatients == pc = "analyzed" /\ analyzed.analyzer = "analyzePatients"

ByEncounters == pc = "analyzed" /\ analyzed.analyzer = "analyzeEncounters"

\* C9 as claimed: the percentages of every non-empty distribution returned
\* by an analyzer sum to 100 within 0.01.
C9_Original ==
  /\ ByPatients =>
       /\ Closed(analyzed.analytics.genderDistribution)
       /\ Closed(analyzed.analytics.raceDistribution)
       /\ Closed(analyzed.analytics.ethnicityDistribution)
       /\ Closed(analyzed.analytics.stateDistribution)
       /\ Closed(analyzed.analytics.cityDistribution)
  /\ ByEncounters =>
       /\ Closed(analyzed.analytics.classDistribution)
       /\ Closed(analyzed.analytics.typeDistribution)
       /\ Closed(analyzed.analytics.statusDistribution)

\* The number of different truthy labels F gives the records.
Labels(records, F(_)) ==
  Cardinality({v \in {F(records[k]) : k \in 1..Len(records)} : Truthy(v)})

\* C9 as amended: the percentages of every non-empty gender, race,
\* ethnicity, class and status distribution sum to 100 within 0.01; those of
\* the state, city and type distributions do when the records have at most
\* 15, 20 and 15 different labels, and never exceed 100 by more than 0.01.
C9_DistributionClosure ==
  /\ ByPatients =>
       /\ Closed(analyzed.analytics.genderDistribution)
       /\ Closed(analyzed.analytics.raceDistribution)
       /\ Closed(analyzed.analytics.ethnicityDistribution)
       /\ Labels(analyzed.given, StateOf) <= 15 =>
            Closed(analyzed.analytics.stateDistribution)
       /\ Labels(analyzed.given, CityOf) <= 20 =>
            Closed(analyzed.analytics.cityDistribution)
       /\ SumPercentages(analyzed.analytics.stateDistribution) <= 1000100
       /\ SumPercentages(analyzed.analytics.cityDistribution) <= 1000100
  /\ ByEncounters =>
       /\ Closed(analyzed.analytics.classDistribution)
       /\ Closed(analyzed.analytics.statusDistribution)
       /\ Labels(analyzed.given, getTypeDisplay) <= 15 =>
            Closed(analyzed.analytics.typeDistribution)
       /\ SumPercentages(analyzed.analytics.typeDistribution) <= 1000100

\* Twenty cities whose percentages are no whole multiples of the unit: their
\* sum is 100 only within the tolerance.
C9_Witness ==
  /\ ByPatients
  /\ Len(analyzed.analytics.cityDistribution) = 20
  /\ Labels(analyzed.given, CityOf) = 20
  /\ SumPercentages(analyzed.analytics.cityDistribution) # 1000000

\* C10 as claimed: the age bucket counts of analyzePatients sum to the
\* number of patients with a defined age.
C10_BucketCoverage ==
  ByPatients =>
    SumCounts(analyzed.analytics.ageDistribution) =
      Cardinality({k \in 1..Len(analyzed.given) :
                     calculateAge(Get(analyzed.given[k], "birthDate"),
                                  Get(analyzed.given[k], "deceasedDateTime"),
                                  analyzed.day) # Null})

\* The encounter has a start and an end that are both valid timestamps, the
\* end not before the start (read off the record).
HasDuration(enc) ==
  LET start == PeriodStart(enc)
      end == PeriodEnd(enc)
  IN /\ start.t = "str" /\ start.s \in DOMAIN TimeTable
     /\ end.t = "str" /\ end.s \in DOMAIN TimeTable
     /\ TimeTable[end.s].t >= TimeTable[start.s].t

\* C11: in the result of analyzeEncounters the losDistribution bucket counts
\* sum to losStats.encountersWithLos, which is the number of encounters with
\* a valid, non-negative duration, and the encountersPerPatient bucket
\* counts sum to uniquePatientRefs.
C11_HistogramCoverage ==
  ByEncounters =>
    /\ SumCounts(analyzed.analytics.losDistribution) =
         analyzed.analytics.losStats.encountersWithLos
    /\ analyzed.analytics.losStats.encountersWithLos = Count(analyzed.given, HasDuration)
    /\ SumCounts(analyzed.analytics.encountersPerPatient) =
         analyzed.analytics.uniquePatientRefs

\* Two encounters of one patient, one of them lasting more than four weeks.
C11_Witness ==
  /\ ByEncounters
  /\ analyzed.analytics.losStats.encountersWithLos = 2
  /\ \E k \in 1..Len(analyzed.analytics.losDistribution) :
       analyzed.analytics.losDistribution[k].label = ">4 weeks"
  /\ analyzed.analytics.uniquePatientRefs = 1
  /\ \E k \in 1..Len(analyzed.analytics.encountersPerPatient) :
       analyzed.analytics.encountersPerPatient[k].label = "2-5"

\* The full years from the day `birth` to the day `end`: the difference of
\* the years, less one when end's (month, day) precedes birth's.
FullYears(birth, end) ==
  (end.y - birth.y) -
    (IF end.m < birth.m \/ (end.m = birth.m /\ end.d < birth.d) THEN 1 ELSE 0)

\* The patient has no death timestamp, or one that is a date.
DeathReadable(patient) ==
  LET death == Get(patient, "deceasedDateTime") IN
  death = Undef \/ (death.t = "str" /\ death.s \in DOMAIN DateTable)

\* The age of a patient on the day `day` as the dates written in the record
\* give it: Null when the birth date is absent or no date, or the full years
\* are negative.
WrittenAge(patient, day) ==
  LET birth == Get(patient, "birthDate")
      death == Get(patient, "deceasedDateTime")
  IN IF ~(birth.t = "str" /\ birth.s \in DOMAIN DateTable) THEN Null
     ELSE LET end == IF death = Undef THEN day ELSE DateTable[death.s]
              age == FullYears(DateTable[birth.s], end)
          IN IF age >= 0 THEN Num(age) ELSE Null

WrittenAges(patients, day) ==
  LET all == [k \in 1..Len(patients) |-> WrittenAge(patients[k], day)]
      defined == SelectSeq(all, LAMBDA a : a # Null)
  IN [k \in 1..Len(defined) |-> defined[k].n]

\* C12 as claimed: calculateAge returns the full years from the birth date
\* to the death timestamp, or to the current date without one, and no age
\* when the birth date is absent or invalid or the years are negative;
\* patients without an age are left out of the age list, not counted as 0.
C12_FullYearsElapsed ==
  ByPatients =>
    /\ \A k \in 1..Len(analyzed.given) :
         DeathReadable(analyzed.given[k]) =>
           calculateAge(Get(analyzed.given[k], "birthDate"),
                        Get(analyzed.given[k], "deceasedDateTime"),
                        analyzed.day) = WrittenAge(analyzed.given[k], analyzed.day)
    /\ (\A k \in 1..Len(analyzed.given) : DeathReadable(analyzed.given[k])) =>
         analyzed.analytics.ageStats =
           calculateStats(WrittenAges(analyzed.given, analyzed.day))

\* The record has no field f.
Lacks(record, f) == Get(record, f) = Undef

\* The birth date of the record is written and is a date.
BirthReadable(patient) ==
  LET birth == Get(patient, "birthDate") IN
  birth.t = "str" /\ birth.s \in DOMAIN DateTable

\* The address list of the record is missing or empty.
NoAddress(patient) ==
  Lacks(patient, "address") \/ Get(patient, "address") = Arr(<<>>)

\* C13: the missing-field counters of analyzePatients count presence only:
\* missingBirthDate the patients with no birth date, missingGender those
\* with no gender, missingAddress those with a missing or empty address
\* list; a patient whose birth date is present but unparsable adds to none
\* of them for it, and gives no age and no entry of the birth date range.
C13_PresenceTallies ==
  ByPatients =>
    LET given == analyzed.given
        a == analyzed.analytics
        readable == SelectSeq(given, BirthReadable)
    IN /\ a.missingBirthDate = Count(given, LAMBDA p : Lacks(p, "birthDate"))
       /\ a.missingGender = Count(given, LAMBDA p : Lacks(p, "gender"))
       /\ a.missingAddress = Count(given, NoAddress)
       /\ readable = <<>> =>
            /\ SumCounts(a.ageDistribution) = 0
            /\ a.ageStats = calculateStats(<<>>)
            /\ a.birthDateRange.min = Null /\ a.birthDateRange.max = Null
       /\ readable # <<>> =>
            /\ \E k \in 1..Len(readable) :
                 a.birthDateRange.min = DateTable[Get(readable[k], "birthDate").s]
            /\ \E k \in 1..Len(readable) :
                 a.birthDateRange.max = DateTable[Get(readable[k], "birthDate").s]

\* One patient with gender, address and an unparsable birth date: no
\* counter moved, and there is no age and no birth date range.
C13_Witness ==
  /\ ByPatients
  /\ Len(analyzed.given) = 1
  /\ Get(analyzed.given[1], "birthDate") = Str("bad-date")
  /\ analyzed.analytics.missingBirthDate = 0
  /\ analyzed.analytics.missingGender = 0
  /\ analyzed.analytics.missingAddress = 0
  /\ analyzed.analytics.birthDateRange.min = Null
  /\ SumCounts(analyzed.analytics.ageDistribution) = 0

\* The first entry of a list of extensions whose url is `url`.
FirstWithUrl(list, url) ==
  LET hits == {k \in 1..Len(list) : Get(list[k], "url") = Str(url)} IN
  IF hits = {} THEN Undef
  ELSE list[CHOOSE k \in hits : \A j \in hits : k <= j]

\* The value the priority order gives a patient for the category of
\* categoryUrl: the display of the "category" sub-extension, else that of the
\* "detailed" one, else the string of the free-text one, else Null.
ByPriority(patient, categoryUrl) ==
  LET extension == Get(patient, "extension") IN
  IF extension.t # "arr" THEN Null
  ELSE LET entry == FirstWithUrl(extension.a, categoryUrl) IN
    IF entry = Undef THEN Null
    ELSE IF Get(entry, "extension").t # "arr" THEN Null
    ELSE LET sub == Get(entry, "extension").a
             category == CodingDisplay(FirstWithUrl(sub, OMB_CATEGORY_URL))
             detailed == CodingDisplay(FirstWithUrl(sub, DETAILED_URL))
             text == OptGet(FirstWithUrl(sub, TEXT_URL), "valueString")
         IN IF Truthy(category) THEN category
            ELSE IF Truthy(detailed) THEN detailed
            ELSE IF Truthy(text) THEN text
            ELSE Null

\* The distribution of the values the priority order gives the patients.
DistributionByPriority(patients, categoryUrl) ==
  createDistribution(CountAll(<<>>,
    SelectSeq([k \in 1..Len(patients) |-> ByPriority(patients[k], categoryUrl)],
              LAMBDA v : v # Null)))

\* C14 as claimed: for race and for ethnicity alike the value of a patient
\* is the category display, else the detailed display, else the free text of
\* the entry with the category's URL, and a patient with none of the three is
\* left out of the distribution.
C14_PriorityOrder ==
  ByPatients =>
    /\ analyzed.analytics.raceDistribution =
         DistributionByPriority(analyzed.given, US_CORE_RACE_URL)
    /\ analyzed.analytics.ethnicityDistribution =
         DistributionByPriority(analyzed.given, US_CORE_ETHNICITY_URL)

\* The deceased flag of the record is true or it has a deceased timestamp.
WrittenDeceased(patient) ==
  Get(patient, "deceasedBoolean") = Bool(TRUE) \/ ~Lacks(patient, "deceasedDateTime")

\* C15: analyzePatients counts a patient as deceased exactly when its
\* deceased flag is true or a deceased timestamp is present, and as living
\* otherwise, so livingCount + deceasedCount = totalPatients; mortalityRate
\* is deceasedCount / totalPatients * 100 (here within 1/10000 percent), and
\* 0 when there are no patients.
C15_Mortality ==
  /\ analyzePatients(<<>>, today).mortalityRate = 0
  /\ ByPatients =>
       LET a == analyzed.analytics IN
       /\ a.deceasedCount = Count(analyzed.given, WrittenDeceased)
       /\ a.livingCount = Count(analyzed.given, LAMBDA p : ~WrittenDeceased(p))
       /\ a.livingCount + a.deceasedCount = a.totalPatients
       /\ a.totalPatients = Len(analyzed.given)
       /\ a.mortalityRate * a.totalPatients <= a.deceasedCount * 100 * 10000
       /\ (a.mortalityRate + 1) * a.totalPatients > a.deceasedCount * 100 * 10000

\* Two patients, one alive with the flag false and one deceased by its
\* timestamp alone: the rate is 50 percent.
C15_Witness ==
  /\ ByPatients
  /\ Len(analyzed.given) = 2
  /\ \E k \in 1..2 : Get(analyzed.given[k], "deceasedBoolean") = Bool(FALSE)
  /\ \E k \in 1..2 : /\ ~Lacks(analyzed.given[k], "deceasedDateTime")
                       /\ Lacks(analyzed.given[k], "deceasedBoolean")
  /\ analyzed.analytics.deceasedCount = 1
  /\ analyzed.analytics.livingCount = 1
  /\ analyzed.analytics.mortalityRate = 500000

\* The position at which a label first occurs in a sequence of labels.
FirstSeen(labels, label) ==
  CHOOSE k \in 1..Len(labels) :
    labels[k] = label /\ \A j \in 1..(k - 1) : labels[j] # label

\* dist is ordered by descending count, items of equal count in the order
\* in which their labels first occur in `labels`.
Ordered(dist, labels) ==
  \A k \in 1..(Len(dist) - 1) :
    \/ dist[k].count > dist[k + 1].count
    \/ /\ dist[k].count = dist[k + 1].count
       /\ FirstSeen(labels, dist[k].label) < FirstSeen(labels, dist[k + 1].label)

\* The class labels of the encounters that have a class, in record order.
ClassLabels(encounters) ==
  LET withClass == SelectSeq(encounters, LAMBDA e : ~Lacks(e, "class")) IN
  [k \in 1..Len(withClass) |-> getClassDisplay(withClass[k])]

\* C16: every distribution made by createDistribution is ordered by
\* descending count, and items of equal count are in the order in which
\* their labels first occur in the input records.
C16_DistributionOrder ==
  /\ ByPatients =>
       LET given == analyzed.given
           a == analyzed.analytics
       IN /\ Ordered(a.genderDistribution, TruthyOf(given, GenderOf))
          /\ Ordered(a.raceDistribution, TruthyOf(given, RaceOf))
          /\ Ordered(a.ethnicityDistribution, TruthyOf(given, EthnicityOf))
          /\ Ordered(a.stateDistribution, TruthyOf(given, StateOf))
          /\ Ordered(a.cityDistribution, TruthyOf(given, CityOf))
  /\ ByEncounters =>
       LET given == analyzed.given
           a == analyzed.analytics
       IN /\ Ordered(a.classDistribution, ClassLabels(given))
          /\ Ordered(a.typeDistribution,
                     [k \in 1..Len(given) |-> getTypeDisplay(given[k])])
          /\ Ordered(a.statusDistribution,
                     TruthyOf(given, LAMBDA e : Get(e, "status")))

\* The state seen second and again last leads the distribution; the state
\* seen first and the one seen third follow it with one patient each.
C16_Witness ==
  /\ ByPatients
  /\ Len(analyzed.analytics.stateDistribution) >= 3
  /\ analyzed.analytics.stateDistribution[1] =
       [label |-> Str("S2"), count |-> 2,
        percentage |-> Percentage(2, Len(analyzed.given))]
  /\ analyzed.analytics.stateDistribution[2].label = Str("S1")
  /\ analyzed.analytics.stateDistribution[3].label = Str("S3")
  /\ analyzed.analytics.stateDistribution[2].count =
       analyzed.analytics.stateDistribution[3].count

\* The encounter has a start and an end, and one of them is no timestamp or
\* the end is before the start.
InvalidPair(enc) ==
  /\ PeriodStart(enc) # Undef
  /\ PeriodEnd(enc) # Undef
  /\ ~HasDuration(enc)

\* C17: an encounter whose start or end is invalid, or whose end is before
\* its start, yields no duration: the duration list, histogram and
\* statistics of analyzeEncounters are those of the other encounters (the
\* duration is not clamped to zero), and with both fields present neither
\* missingPeriodEnd nor missingPeriodStart counts it.
C17_NoDurationForInvalidPeriod ==
  ByEncounters =>
    LET given == analyzed.given
        a == analyzed.analytics
        others == SelectSeq(given, LAMBDA e : ~InvalidPair(e))
    IN /\ a.losStats.encountersWithLos = Count(others, HasDuration)
       /\ a.losStats = analyzeEncounters(others).losStats
       /\ a.losDistribution = analyzeEncounters(others).losDistribution
       /\ a.missingPeriodStart = Count(others, LAMBDA e : PeriodStart(e) = Undef)
       /\ a.missingPeriodEnd = Count(others, LAMBDA e : PeriodEnd(e) = Undef)

\* An encounter that ends before it starts and one whose start is no
\* timestamp: no duration, and no missing start or end.
C17_Witness ==
  /\ ByEncounters
  /\ Len(analyzed.given) = 2
  /\ \E k \in 1..2 : /\ InvalidPair(analyzed.given[k])
                       /\ NewTime(PeriodStart(analyzed.given[k])).valid
                       /\ NewTime(PeriodEnd(analyzed.given[k])).valid
  /\ \E k \in 1..2 : /\ InvalidPair(analyzed.given[k])
                       /\ ~NewTime(PeriodStart(analyzed.given[k])).valid
  /\ analyzed.analytics.losStats.encountersWithLos = 0
  /\ analyzed.analytics.losDistribution = <<>>
  /\ analyzed.analytics.missingPeriodStart = 0
  /\ analyzed.analytics.missingPeriodEnd = 0

\* The start of the encounter is written and is a timestamp.
StartReadable(enc) ==
  LET start == PeriodStart(enc) IN
  start.t = "str" /\ start.s \in DOMAIN TimeTable

WrittenReference(enc) == OptGet(Get(enc, "subject"), "reference")

\* The reference without a leading "Patient/" or "urn:uuid:".
WrittenId(enc) == Str(StripPrefix(WrittenReference(enc).s))

\* The per-patient outputs of analyzeEncounters when exactly the encounters
\* satisfying Counted are counted, each once under its written identifier.
PerPatientOutputs(encounters, Counted(_)) ==
  LET counted == SelectSeq(encounters, Counted)
      counts == CountAll(<<>>, [k \in 1..Len(counted) |-> WrittenId(counted[k])])
      perPatient == [k \in 1..Len(counts) |-> counts[k].count]
  IN [uniquePatientRefs |-> Len(counts),
      encountersPerPatient |-> createEncountersPerPatientHistogram(perPatient),
      encountersPerPatientStats |-> calculateStatsOver(perPatient, 1)]

\* The per-patient outputs that analyzeEncounters returned.
PerPatientReturned(a) ==
  [uniquePatientRefs |-> a.uniquePatientRefs,
   encountersPerPatient |-> a.encountersPerPatient,
   encountersPerPatientStats |-> a.encountersPerPatientStats]

\* C19 as claimed: the patient identifier of an encounter is its subject
\* reference without a leading "Patient/" or "urn:uuid:"; missingSubject
\* is the number of encounters without a reference, and every encounter
\* with a reference is counted once under its identifier.
C19_Original ==
  ByEncounters =>
    /\ analyzed.analytics.missingSubject =
         Count(analyzed.given, LAMBDA e : WrittenReference(e) = Undef)
    /\ PerPatientReturned(analyzed.analytics) =
         PerPatientOutputs(analyzed.given, LAMBDA e : WrittenReference(e) # Undef)

\* The encounter has a reference that leaves an identifier that is not empty.
HasPatientId(enc) == WrittenReference(enc) # Undef /\ WrittenId(enc) # Str("")

\* C19 as amended: the patient identifier of an encounter is its subject
\* reference without a leading "Patient/" or "urn:uuid:"; missingSubject
\* is the number of encounters whose reference is absent or leaves an empty
\* identifier, and every other encounter is counted once under its
\* identifier.
C19_PatientIdentifier ==
  ByEncounters =>
    /\ analyzed.analytics.missingSubject =
         Count(analyzed.given, LAMBDA e : ~HasPatientId(e))
    /\ PerPatientReturned(analyzed.analytics) =
         PerPatientOutputs(analyzed.given, HasPatientId)

\* Two encounters of the patient p1, one referring to it as "Patient/p1" and
\* one as "urn:uuid:p1".
C19_SamePatientWitness ==
  /\ ByEncounters
  /\ Len(analyzed.given) = 2
  /\ \E k \in 1..2 : WrittenReference(analyzed.given[k]) = Str("Patient/p1")
  /\ \E k \in 1..2 : WrittenReference(analyzed.given[k]) = Str("urn:uuid:p1")
  /\ analyzed.analytics.uniquePatientRefs = 1
  /\ analyzed.analytics.encountersPerPatientStats.max = 2
  /\ analyzed.analytics.missingSubject = 0

\* An encounter whose reference is the bare prefix "Patient/" counts as
\* missing its subject, next to one counted under the verbatim reference.
C19_Witness ==
  /\ ByEncounters
  /\ Len(analyzed.given) = 2
  /\ \E k \in 1..2 : WrittenReference(analyzed.given[k]) = Str("Patient/")
  /\ \E k \in 1..2 : WrittenReference(analyzed.given[k]) = Str("p2")
  /\ analyzed.analytics.uniquePatientRefs = 1
  /\ analyzed.analytics.missingSubject = 1

\* The class label the resolution order gives an encounter that has a class
\* field: its display, else the friendly name of its code, else the raw
\* code, else "Unknown".
WrittenClassLabel(enc) ==
  LET display == Get(Get(enc, "class"), "display")
      code == Get(Get(enc, "class"), "code")
  IN IF display # Undef THEN display
     ELSE IF code # Undef /\ code.s \in DOMAIN CodeMap THEN Str(CodeMap[code.s])
     ELSE IF code # Undef THEN code
     ELSE Str("Unknown")

\* C20 as claimed: the class label of an encounter is the display of its
\* class field, else the friendly name of its code, else the raw code, else
\* "Unknown"; an encounter without a class field is counted in
\* missingClass, so the classDistribution counts and missingClass add up to
\* totalEncounters.
C20_ClassLabel ==
  ByEncounters =>
    LET given == analyzed.given
        a == analyzed.analytics
        withClass == SelectSeq(given, LAMBDA e : ~Lacks(e, "class"))
    IN /\ a.classDistribution =
            createDistribution(CountAll(<<>>,
              [k \in 1..Len(withClass) |-> WrittenClassLabel(withClass[k])]))
       /\ a.missingClass = Count(given, LAMBDA e : Lacks(e, "class"))
       /\ SumCounts(a.classDistribution) + a.missingClass = a.totalEncounters

\* The k-th smallest of the values, by counting: fewer than k values lie
\* below it and at least k values are not above it.
Kth(values, k) ==
  CHOOSE v \in {values[j] : j \in 1..Len(values)} :
    /\ Cardinality({j \in 1..Len(values) : values[j] < v}) < k
    /\ Cardinality({j \in 1..Len(values) : values[j] <= v}) >= k

\* Twice the median of a non-empty list: the middle value counted twice, or
\* the sum of the two middle values.
TwiceMedian(values) ==
  LET n == Len(values) IN
  IF n % 2 = 1 THEN 2 * Kth(values, (n + 1) \div 2)
  ELSE Kth(values, n \div 2) + Kth(values, n \div 2 + 1)

\* The reported median (in tenths) is the median itself, for values in units
\* of 1/den.
ExactMedian(stats, values, den) ==
  2 * den * stats.median = 10 * TwiceMedian(values)

\* The reported median (in tenths) is the median rounded to one decimal
\* place, halves upwards, for values in units of 1/den.
RoundedMedian(stats, values, den) ==
  /\ 2 * den * stats.median <= 10 * TwiceMedian(values) + den
  /\ 10 * TwiceMedian(values) + den < 2 * den * (stats.median + 1)

\* The lists the analyzers hand to calculateStats.
AgeValues == AgesOf(analyzed.given, analyzed.day)

LosValues == LosOf(analyzed.given)

PerPatientValues ==
  LET counts == CountAll(<<>>, TruthyOf(analyzed.given, PatientIdOf))
  IN [k \in 1..Len(counts) |-> counts[k].count]

AllZero(stats) == \A f \in DOMAIN stats : stats[f] = 0

\* C21 as claimed: the median of a non-empty list is reported unrounded (the
\* middle value, or the average of the two middle values), in the age
\* statistics, the duration statistics in days and the encounters-per-patient
\* statistics; the statistics of an empty list are all 0.
C21_Original ==
  /\ ByPatients =>
       LET s == analyzed.analytics.ageStats IN
       IF AgeValues = <<>> THEN AllZero(s) ELSE ExactMedian(s, AgeValues, 1)
  /\ ByEncounters =>
       LET a == analyzed.analytics IN
       /\ IF LosValues = <<>> THEN AllZero(a.losStats.stats)
          ELSE ExactMedian(a.losStats.stats, LosValues, 48)
       /\ IF PerPatientValues = <<>> THEN AllZero(a.encountersPerPatientStats)
          ELSE ExactMedian(a.encountersPerPatientStats, PerPatientValues, 1)

\* C21, amended: the median of a non-empty list is the middle value, or the
\* average of the two middle values, rounded to one decimal place like the
\* mean; for whole-numbered values (ages, encounters per patient) the
\* rounding changes nothing, for durations in days it does.  min and max are
\* the smallest and the largest value, unrounded.  The statistics of an empty
\* list are all 0.
C21_MedianRounded ==
  /\ ByPatients =>
       LET s == analyzed.analytics.ageStats IN
       IF AgeValues = <<>> THEN AllZero(s)
       ELSE /\ ExactMedian(s, AgeValues, 1)
            /\ s.min = Kth(AgeValues, 1) /\ s.max = Kth(AgeValues, Len(AgeValues))
  /\ ByEncounters =>
       LET a == analyzed.analytics IN
       /\ IF LosValues = <<>> THEN AllZero(a.losStats.stats)
          ELSE /\ RoundedMedian(a.losStats.stats, LosValues, 48)
               /\ a.losStats.stats.min = Kth(LosValues, 1)
               /\ a.losStats.stats.max = Kth(LosValues, Len(LosValues))
       /\ IF PerPatientValues = <<>> THEN AllZero(a.encountersPerPatientStats)
          ELSE ExactMedian(a.encountersPerPatientStats, PerPatientValues, 1)

\* Two different durations were analyzed, and their average is no whole
\* number of tenths of a day.
C21_Witness ==
  /\ ByEncounters
  /\ Len(LosValues) = 2 /\ LosValues[1] # LosValues[2]
  /\ ~ExactMedian(analyzed.analytics.losStats.stats, LosValues, 48)

\* looksLikeNdjson and getPreview have just returned.
Prechecked == pc = "idle" /\ run = 1

\* The index of the first piece of a text that is not blank, 0 when every
\* piece is blank.
FirstNonBlank(text) ==
  LET filled == {j \in 1..PieceCount(text) : ~IsBlank(Piece(text, j))} IN
  IF filled = {} THEN 0 ELSE CHOOSE j \in filled : \A h \in filled : j <= h

\* The piece decodes to an object (so its text starts with an opening brace)
\* whose discriminator is a string.
HasStringDiscriminator(piece) ==
  /\ CarriesDiscriminator(piece)
  /\ ValueOf(piece).o.resourceType.t = "str"

\* The text up to the end of its first non-blank piece: up to the first
\* newline after the first character that is no whitespace.
UpToFirstNonBlank(text) ==
  LET filled == {k \in 1..Len(text) : text[k] \notin {WS, NL}} IN
  IF filled = {} THEN text
  ELSE LET first == CHOOSE k \in filled : \A h \in filled : k <= h
           after == {k \in NewlinesOf(text) : k > first}
       IN IF after = {} THEN text
          ELSE SubSeq(text, 1, (CHOOSE k \in after : \A h \in after : k <= h) - 1)

\* C22: looksLikeNdjson returns true exactly when the first non-blank line of
\* the input decodes to an object whose discriminator is a string (such a
\* line starts with an opening brace); it returns false for an input without
\* a non-blank line; and it returns the same for the input cut off after its
\* first non-blank line.
C22_FirstLineDecides ==
  Prechecked =>
    /\ looks = /\ FirstNonBlank(input) # 0
               /\ HasStringDiscriminator(Piece(input, FirstNonBlank(input)))
    /\ looks = looksLikeNdjson(UpToFirstNonBlank(input))

\* The pre-check accepted a text whose first non-blank line comes after a
\* blank one and is followed by a line that is no record.
C22_Witness ==
  /\ Prechecked /\ looks
  /\ FirstNonBlank(input) > 1
  /\ \E j \in (FirstNonBlank(input) + 1)..PieceCount(input) :
       ~IsBlank(Piece(input, j)) /\ ~IsRecord(Piece(input, j))

\* The first n items of a sequence, all of them when it has fewer.
FirstN(seq, n) == SubSeq(seq, 1, IF n < Len(seq) THEN n ELSE Len(seq))

\* C23: for every maxRecords from 0 on, the records getPreview returns are
\* the first min(maxRecords, validLines) records parseNdjson returns for the
\* same input, in the same order; getPreview accepts a non-blank line exactly
\* when parseNdjson counts it valid; and it returns records and the hasMore
\* flag only, no diagnostics.
C23_PreviewIsPrefix ==
  Done =>
    /\ \A n \in 0..MaxPreview :
         /\ previews[n].resources = FirstN(result.resources, n)
         /\ Len(previews[n].resources) =
              (IF n < result.validLines THEN n ELSE result.validLines)
         /\ DOMAIN previews[n] = {"resources", "hasMore"}
    /\ \A k \in 1..Len(lines) :
         Trim(lines[k]) # <<>> =>
           (PreviewAccepts(Trim(lines[k])) <=> ValidateLine(Trim(lines[k])).ok)

\* A text with two records and an invalid line before the second one was
\* previewed and parsed: the preview of one record is shorter than the
\* parsed records, the preview of three is all of them.
C23_Witness ==
  /\ Done
  /\ result.validLines = 2
  /\ \E k \in 1..Len(lines) :
       /\ Trim(lines[k]) # <<>> /\ ~ValidateLine(Trim(lines[k])).ok
       /\ \E h \in (k + 1)..Len(lines) : ValidateLine(Trim(lines[h])).ok
  /\ Len(previews[1].resources) = 1
  /\ previews[MaxPreview].resources = result.resources

\* The first non-blank line of the input is the first record parseNdjson
\* returned, and its discriminator is the detected kind.
FirstLineLeads ==
  /\ result.validLines >= 1
  /\ IsOneJson(Piece(input, FirstNonBlank(input)))
  /\ result.resources[1] = ValueOf(Piece(input, FirstNonBlank(input)))
  /\ result.resourceType = Get(result.resources[1], "resourceType")

\* C28: whenever looksLikeNdjson(input) is true, parseNdjson counts the first
\* non-blank line as valid (validLines >= 1) and the detected kind is the
\* discriminator of that line.
C28_PrecheckAgrees ==
  (Done /\ looks) => FirstLineLeads

\* The two agree unless the discriminator of the first non-blank line is the
\* empty string: then the pre-check passes and parseNdjson counts the line
\* as invalid.
C28_UnlessEmptyDiscriminator ==
  (Done /\ looks) =>
    LET first == Piece(input, FirstNonBlank(input)) IN
    IF ValueOf(first).o.resourceType # Str("")
    THEN FirstLineLeads
    ELSE /\ result.invalidLines >= 1
         /\ ~(result.validLines >= 1 /\ result.resources[1] = ValueOf(first))

\* A text that passed the pre-check was parsed; its first non-blank line
\* comes after a blank one and is followed by a record of another kind.
C28_Witness ==
  /\ Done /\ looks
  /\ FirstNonBlank(input) > 1
  /\ FirstLineLeads
  /\ result.validLines >= 2
  /\ Get(result.resources[2], "resourceType") # result.resourceType

\* C27: the diagnostics parseNdjson returns have at most 50 entries, the
\* summary included; an entry of lineNumber 0 can only be the first one, so
\* there is one at most; and the other entries are the earliest invalid
\* lines of the input, in order: the k-th of them carries the 1-based number
\* of the k-th invalid line, so their line numbers increase strictly.
C27_DiagnosticsShape ==
  Done =>
    LET errs == result.errors
        perLine == SelectSeq(errs, LAMBDA e : e.lineNumber # 0)
        invalid == AllPieces(input, IsInvalid)
    IN /\ Len(errs) <= MAX_ERRORS_STORED
       /\ \A k \in 2..Len(errs) : errs[k].lineNumber # 0
       /\ Len(perLine) <= Cardinality(invalid)
       /\ \A k \in 1..Len(perLine) :
            /\ perLine[k].lineNumber \in invalid
            /\ Cardinality({j \in invalid : j < perLine[k].lineNumber}) = k - 1
       /\ \A k \in 1..(Len(perLine) - 1) :
            perLine[k].lineNumber < perLine[k + 1].lineNumber

\* 50 entries are returned, the first of them the summary, for a text with
\* 49 invalid lines that do not start at line 1.
C27_Witness ==
  /\ Done
  /\ Len(result.errors) = MAX_ERRORS_STORED
  /\ result.errors[1].lineNumber = 0
  /\ result.errors[2].lineNumber > 1
  /\ result.invalidLines = MAX_ERRORS_STORED - 1

\* The records of the input whose discriminator is the given kind, in input
\* order.
RecordsOfKind(kind) ==
  ValuesInOrder(input, {j \in AllPieces(input, IsRecord) :
                          ValueOf(Piece(input, j)).o.resourceType = Str(kind)})

\* The dashboard has rendered, with or without an escaping error.
Rendered == pc \in {"analyzed", "crashed"}

\* C25: the patient analyzer is invoked only when the detected kind is
\* 'Patient', with exactly the parsed records whose resourceType is
\* 'Patient', in order; the encounter analyzer likewise for 'Encounter'; for
\* every other detected kind neither of the two is invoked.  The records of
\* another kind are not handed over, and they stay in the records of the
\* parse result.
C25_AnalyzerInput ==
  Rendered =>
    /\ analyzed.analyzer = "analyzePatients" <=> result.resourceType = Str("Patient")
    /\ analyzed.analyzer = "analyzeEncounters" <=> result.resourceType = Str("Encounter")
    /\ analyzed.analyzer = "analyzePatients" => analyzed.given = RecordsOfKind("Patient")
    /\ analyzed.analyzer = "analyzeEncounters" => analyzed.given = RecordsOfKind("Encounter")
    /\ analyzed.analyzer # "generic" =>
         \A k \in 1..Len(analyzed.given) :
           Get(analyzed.given[k], "resourceType") = result.resourceType
    /\ result.resources = ValuesInOrder(input, AllPieces(input, IsRecord))

\* A Patient record, an Encounter record and another Patient record were
\* parsed: the patient analyzer was given the two Patient records, and the
\* parse result still holds all three.
C25_Witness ==
  /\ Rendered
  /\ analyzed.analyzer = "analyzePatients"
  /\ Len(analyzed.given) = 2
  /\ Len(result.resources) = 3
  /\ Get(result.resources[2], "resourceType") = Str("Encounter")

\* The bounds between the duration buckets, in hours, and the labels of the
\* buckets they separate.
LosBounds == <<1, 4, 8, 24, 48, 72, 168, 336, 720>>

LosLabels ==
  <<"<1 hour", "1-4 hours", "4-8 hours", "8-24 hours", "1-2 days", "2-3 days",
    "3-7 days", "1-2 weeks", "2-4 weeks", ">4 weeks">>

\* The number of the bucket whose half-open range holds a duration given in
\* half hours: one more than the number of bounds the duration has reached.
LosBucketOf(los) ==
  1 + Cardinality({k \in 1..Len(LosBounds) : 2 * LosBounds[k] <= los})

\* C26: every duration is counted in the bucket whose half-open range
\* [min, max) holds it, the bounds being 1, 4, 8, 24, 48, 72, 168, 336 and
\* 720 hours (a duration equal to a bound is counted in the bucket that
\* starts there, 0.5 hours in "<1 hour"); the histogram lists the buckets
\* with a count above zero only, in ascending order.
C26_LosHistogram ==
  ByEncounters =>
    LET out == analyzed.analytics.losDistribution
        filled == {LosBucketOf(LosValues[k]) : k \in 1..Len(LosValues)}
    IN /\ Len(out) = Cardinality(filled)
       /\ \A k \in 1..Len(out) :
            \E b \in filled :
              /\ Cardinality({c \in filled : c < b}) = k - 1
              /\ out[k].label = LosLabels[b]
              /\ out[k].count =
                   Cardinality({j \in 1..Len(LosValues) : LosBucketOf(LosValues[j]) = b})
              /\ out[k].count > 0
              /\ b > 1 => out[k].min = LosBounds[b - 1]
              /\ b <= Len(LosBounds) => out[k].max = LosBounds[b]

\* A duration of exactly 720 hours, then one of half an hour: the histogram
\* is "<1 hour" followed by ">4 weeks".
C26_Witness ==
  /\ ByEncounters
  /\ LosValues = <<1440, 1>>
  /\ Len(analyzed.analytics.losDistribution) = 2
  /\ analyzed.analytics.losDistribution[1].label = "<1 hour"
  /\ analyzed.analytics.losDistribution[2].label = ">4 weeks"

\* C24: handleAnalyze sets the loading indicator and only schedules the
\* parse: while a callback is pending isLoading is true, and the step that
\* schedules it changes neither the parse result nor the view nor the stored
\* input.  The parse result is set only by the callback, in one step, to
\* what parseNdjson returns for the text handleAnalyze was called with.  A
\* callback step always leaves isLoading false; when the parse returned it
\* shows the dashboard and has stored the input, when the parse threw it
\* changes neither the view nor the stored input nor the persisted item.  The
\* view moves to 'dashboard' in no other step.  And whenever isLoading is
\* true it is false again later.
C24_DeferredParse ==
  /\ [](frames # <<>> => isLoading)
  /\ [][Len(frames') > Len(frames) =>
          /\ isLoading'
          /\ frames' = Append(frames, inputText)
          /\ UNCHANGED <<parseResult, view, storedInput, storageItem, outcome>>]_vars
  /\ [][(parseResult' # parseResult /\ parseResult' # Null) =>
          /\ FrameStep
          /\ parseResult' = parseNdjson(Head(frames), parseResult'.parseTimeMs)]_vars
  /\ [][FrameStep =>
          /\ ~isLoading'
          /\ IF outcome' = "returned"
             THEN /\ view' = "dashboard"
                  /\ parseResult' # Null
                  /\ storedInput' = Head(frames)
                  /\ storageItem' \in {storageItem, <<Head(frames)>>}
             ELSE UNCHANGED <<view, parseResult, storedInput, storageItem>>]_vars
  /\ [][(view = "input" /\ view' = "dashboard") =>
          (FrameStep /\ outcome' = "returned")]_vars
  /\ (isLoading ~> ~isLoading)

\* The parse of a submitted text threw: the indicator is off again, the input
\* view is still shown with the text, and nothing was stored.
C24_Witness ==
  /\ outcome = "threw"
  /\ ~isLoading /\ frames = <<>>
  /\ view = "input" /\ validationStatus = "valid"
  /\ storedInput = <<>> /\ storageItem = <<>>

\* C29: in every state of App that analyze, callback, reset and tab-change
\* events lead to, the dashboard view has a parse result; and a step from the
\* dashboard back to the input view (handleReset) sets parseResult to null
\* and activeTab to 'overview' and changes neither the stored input nor the
\* persisted item.
C29_DashboardHasResult ==
  /\ [](view = "dashboard" => parseResult # Null)
  /\ [][(view = "dashboard" /\ view' = "input") =>
          /\ parseResult' = Null
          /\ activeTab' = "overview"
          /\ UNCHANGED <<storedInput, storageItem>>]_vars

\* The input view is shown again after an analysis: the parse result is
\* gone, the first tab is selected and the analyzed text is still stored.
C29_Witness ==
  /\ view = "input"
  /\ outcome = "returned"
  /\ parseResult = Null
  /\ activeTab = "overview"
  /\ storedInput # <<>> /\ storageItem = <<storedInput>>
  /\ inputText = storedInput

\* A text is blank when it holds nothing but whitespace and line breaks.
BlankText(text) == \A k \in 1..Len(text) : text[k] \in {WS, NL}

\* The Analyze button is enabled and handleSubmit would call onAnalyze.
CanAnalyze == validationStatus = "valid" /\ ~BlankText(inputText)

\* C30: in every state of the mounted NdjsonInput, validationStatus is
\* 'empty' exactly when the text is blank and 'valid' exactly when
\* looksLikeNdjson of the text is true, so that onAnalyze can be triggered
\* exactly for the non-blank texts that pass the pre-check.
C30_StatusMatchesText ==
  view = "input" =>
    /\ validationStatus = "empty" <=> BlankText(inputText)
    /\ validationStatus = "valid" <=> looksLikeNdjson(inputText)
    /\ CanAnalyze <=> (~BlankText(inputText) /\ looksLikeNdjson(inputText))

\* The status differs from the text's only as NdjsonInput is mounted with a
\* stored text: the text is not blank, and status, preview type and line
\* count are still 'empty', null and 0.
C30_UnlessMountedWithText ==
  view = "input" =>
    \/ /\ validationStatus = "empty" <=> BlankText(inputText)
       /\ validationStatus = "valid" <=> looksLikeNdjson(inputText)
    \/ /\ ~BlankText(inputText)
       /\ validationStatus = "empty" /\ previewType = Null /\ lineCount = 0

=============================================================================
